---- MODULE Spec2Model ----
(***************************************************************************)
(* The attested tunnel of ra-https: the relay side (TunnelServer, control  *)
(* sockets, per-socket symmetric keys, virtual WebSocket sub-connections,  *)
(* tunnelled HTTP requests) and the client side (RA: ensureConnection,     *)
(* key exchange, fetch and its waiters).                                   *)
(*                                                                         *)
(* A control socket is one WebSocket connection to /__ra__; it has a       *)
(* client end (the RA object's `ws`) and a server end (`controlWs`).       *)
(* Wire encoding (JSON on the client leg, CBOR on the server leg) is       *)
(* abstracted to records; a frame that does not decode is the frame of     *)
(* type "garbage".                                                         *)
(***************************************************************************)
EXTENDS Integers, Sequences, FiniteSets, TLC

\* ------------------------------------------------------------------ bounds
MaxConn == 3          \* control sockets the RA client may create
MaxPeers == 2         \* control sockets opened by arbitrary peers
MaxMock == 2          \* virtual WebSocket clients ever created
MaxMsgs == 2          \* messages delivered to one virtual client
MaxInFlight == 2      \* frames queued to a peer when the host sends one more
MaxHostPeers == 1     \* control sockets while the host side is studied
MaxFetch == 2         \* calls of fetch
MaxSessions == 2      \* control sockets of a client that sends requests
MaxKeys == 3          \* keys drawn when a relay announces its key again
MaxLevels == 2        \* TCB levels of a TCB info
MaxComp == 2          \* TCB components of a level and of a quote
MaxSvn == 1           \* svn values of a quote

Conn == 1..MaxConn
ConnectionIds == {1, 2}
Quotes == {"good", "bad"}

\* ------------------------------------------------------- program constants
NoKey == 0                    \* an absent key / an absent map entry
TunnelClosedCode == 1006      \* close code used when the control socket closes
PeerCloseCodes == {1000}      \* close codes a peer may give
ServerPub == "server_pub"     \* the relay's X25519 public key
OtherPub == "other_pub"       \* some other X25519 public key

VARIABLES
    \* relay (TunnelServer)
    quote,                  \* TunnelServer.quote
    sState,                 \* server end of each control socket
    symmetricKeyBySocket,   \* controlWs -> key (NoKey: no entry)
    webSocketConnections,   \* connectionId -> [mockWs, controlWs]
    wssClients,             \* ServerRAMockWebSocketServer's client set
    mocks,                  \* every ServerRAMockWebSocket created, in order
    appRequests,            \* requests handed to the application, unanswered
    decrypted,              \* controlWs -> decryptEnvelopeForSocket was called
    rx,                     \* the last frame of a peer: its socket, its branch
    \* network
    c2s, s2c,               \* frames in flight, per control socket
    \* client (RA)
    ws,                     \* RA.ws (0: null)
    cState,                 \* readyState of the client end of each socket
    closePending,           \* a close event is queued behind an error event
    connectionPromise,      \* RA.connectionPromise (0: null)
    promState,              \* state of the promise created with each socket
    symmetricKey,           \* RA.symmetricKey
    serverX25519PublicKey,  \* RA.serverX25519PublicKey
    pendingRequests,        \* RA.pendingRequests (the requestIds registered)
    fetches,                \* every call of fetch
    reconnectTimers,        \* armed reconnect timers
    keygen,                 \* keys drawn from crypto_secretbox_keygen so far
    \* quote verification library
    sample,                 \* the input handed to the library
    result                  \* what the library made of it

serverVars == <<quote, sState, symmetricKeyBySocket, webSocketConnections,
                wssClients, mocks, appRequests, decrypted, rx>>
netVars == <<c2s, s2c>>
clientVars == <<ws, cState, closePending, connectionPromise, promState,
                symmetricKey, serverX25519PublicKey, pendingRequests, fetches,
                reconnectTimers, keygen>>
qvlVars == <<sample, result>>
vars == <<serverVars, netVars, clientVars, qvlVars>>

\* ------------------------------------------------------------------ frames
Fr(type, pub, key, inner, id, arg, status, err, ev) ==
    [type |-> type, pub |-> pub, key |-> key, inner |-> inner, id |-> id,
     arg |-> arg, status |-> status, err |-> err, ev |-> ev]

NoFrame == Fr("none", "-", NoKey, "-", 0, 0, 0, "-", "-")
Garbage == Fr("garbage", "-", NoKey, "-", 0, 0, 0, "-", "-")

\* server_kx { x25519PublicKey, quote }
ServerKx(pub, q) == Fr("server_kx", pub, NoKey, q, 0, 0, 0, "-", "-")
\* client_kx { sealedSymmetricKey }: crypto_box_seal(key, pub)
ClientKx(key, pub) == Fr("client_kx", pub, key, "-", 0, 0, 0, "-", "-")
\* an inner message sent in the clear
Plain(inner, id, arg, status, err, ev) ==
    Fr(inner, "-", NoKey, "-", id, arg, status, err, ev)
\* { type: "enc", nonce, ciphertext }: crypto_secretbox_easy(inner, nonce, key)
Enc(key, m) == Fr("enc", "-", key, m.type, m.id, m.arg, m.status, m.err, m.ev)
\* crypto_secretbox_open_easy: the inner message of an envelope
Inner(f) == Plain(f.inner, f.id, f.arg, f.status, f.err, f.ev)

HttpRequest(rid, url) == Plain("http_request", rid, url, 0, "-", "-")
HttpResponse(rid, url, status, err) ==
    Plain("http_response", rid, url, status, err, "-")
WsConnect(cid) == Plain("ws_client_connect", cid, 0, 0, "-", "-")
WsMessage(cid, data) == Plain("ws_message", cid, data, 0, "-", "-")
\* ws_message { connectionId, data, dataType }: dataType travels in `ev`
WsMessageOf(cid, data, dataType) == Plain("ws_message", cid, data, 0, "-", dataType)
WsClientClose(cid, code) == Plain("ws_client_close", cid, 0, code, "-", "-")
WsEvent(cid, ev, code) == Plain("ws_event", cid, 0, code, "-", ev)
\* ws_event { connectionId, eventType: "error", error }
WsError(cid, msg) == Plain("ws_event", cid, 0, 0, msg, "error")
Unknown == Plain("unknown", 0, 0, 0, "-", "-")

\* ------------------------------------------------------------- type guards
isControlChannelKXConfirm(f) == f.type = "client_kx"
isControlChannelEncryptedMessage(f) == f.type = "enc"
isRAEncryptedHTTPRequest(m) == m.type = "http_request"
isRAEncryptedClientConnectEvent(m) == m.type = "ws_client_connect"
isRAEncryptedWSMessage(m) == m.type = "ws_message"
isRAEncryptedClientCloseEvent(m) == m.type = "ws_client_close"

\* --------------------------------------------------------------------- Init
NoEntry == [mockWs |-> 0, controlWs |-> 0]
NoRx == [conn |-> 0, outcome |-> "none"]
NoSample == [kind |-> "none"]
NoResult == [kind |-> "none"]

\* the tunnel before anything has happened
InitTunnel ==
    /\ quote \in Quotes
    /\ sState = [c \in Conn |-> "NONE"]
    /\ symmetricKeyBySocket = [c \in Conn |-> NoKey]
    /\ webSocketConnections = [i \in ConnectionIds |-> NoEntry]
    /\ wssClients = {}
    /\ mocks = <<>>
    /\ appRequests = {}
    /\ decrypted = [c \in Conn |-> FALSE]
    /\ rx = NoRx
    /\ c2s = [c \in Conn |-> <<>>]
    /\ s2c = [c \in Conn |-> <<>>]
    /\ ws = 0
    /\ cState = [c \in Conn |-> "NONE"]
    /\ closePending = [c \in Conn |-> FALSE]
    /\ connectionPromise = 0
    /\ promState = [c \in Conn |-> "none"]
    /\ symmetricKey = NoKey
    /\ serverX25519PublicKey = "-"
    /\ pendingRequests = {}
    /\ fetches = <<>>
    /\ reconnectTimers = 0
    /\ keygen = 0

Init == InitTunnel /\ sample = NoSample /\ result = NoResult

\* ------------------------------------------------------------ relay: crypto
\* crypto_box_seal_open(sealed, x25519PublicKey, x25519PrivateKey) succeeds
\* exactly on a box sealed to the relay's public key
SealOpens(f) == f.pub = ServerPub

\* a faulty variant of ToClient: the frame jumps the queue
ToClientFront(q, c, f) ==
    IF cState[c] = "CLOSED" THEN q ELSE [q EXCEPT ![c] = <<f>> \o @]

\* a frame written to a socket whose other end has closed is lost
ToClient(q, c, f) == IF cState[c] = "CLOSED" THEN q ELSE [q EXCEPT ![c] = Append(@, f)]
ToServer(q, c, f) == IF sState[c] = "CLOSED" THEN q ELSE [q EXCEPT ![c] = Append(@, f)]

\* sendEncrypted / encryptForSocket: the frames in flight on controlWs after
\* sending payload; throws (caught by every caller) when the socket has no key
CanEncrypt(c) == symmetricKeyBySocket[c] # NoKey
sendEncrypted(c, payload) ==
    IF CanEncrypt(c)
    THEN ToClient(s2c, c, Enc(symmetricKeyBySocket[c], payload))
    ELSE s2c

\* a faulty variant of DecryptOk: any envelope opens once the socket has a key
DecryptOkAnyKey(c, f) == symmetricKeyBySocket[c] # NoKey

\* decryptEnvelopeForSocket: crypto_secretbox_open_easy authenticates the
\* envelope under the key of this socket, or throws
DecryptOk(c, f) == symmetricKeyBySocket[c] # NoKey /\ f.key = symmetricKeyBySocket[c]

SrvUnchanged ==
    UNCHANGED <<quote, sState, symmetricKeyBySocket, webSocketConnections,
                wssClients, mocks, appRequests, decrypted, s2c>>

\* ----------------------------------------------------- relay: new connection
\* controlWss.on("connection"): announce the key-exchange key and the quote
ServerConnection(c) ==
    /\ cState[c] = "CONNECTING"
    /\ sState[c] = "NONE"
    /\ sState' = [sState EXCEPT ![c] = "OPEN"]
    /\ s2c' = ToClient(s2c, c, ServerKx(ServerPub, quote))
    /\ UNCHANGED <<quote, symmetricKeyBySocket, webSocketConnections, wssClients,
                   mocks, appRequests, decrypted, rx, c2s>>

\* the path of the control channel, one character per element
ControlPath == <<"/", "_", "_", "r", "a", "_", "_">>

\* the urls an upgrade request is modelled to carry
UpgradeUrls ==
    {ControlPath, ControlPath \o <<"x">>, ControlPath \o <<"/", "y">>,
     <<"/", "w", "s">>, <<>>}

\* String.prototype.startsWith
startsWith(u, p) == Len(u) >= Len(p) /\ SubSeq(u, 1, Len(p)) = p

\* server.on("upgrade"): the request is handed to the control-channel server
\* when its url starts with the control path, otherwise the socket is
\* destroyed
upgrade(c, url) ==
    IF startsWith(url, ControlPath)
    THEN ServerConnection(c)
    ELSE /\ cState[c] = "CONNECTING"
         /\ sState[c] = "NONE"
         /\ sState' = [sState EXCEPT ![c] = "CLOSED"]
         /\ UNCHANGED <<quote, symmetricKeyBySocket, webSocketConnections,
                        wssClients, mocks, appRequests, decrypted, rx, c2s, s2c>>

\* ------------------------------------------------------ relay: key exchange
\* a faulty variant of KxAccepts: a client_kx is accepted whatever is stored
KxAcceptsAlways(c) == TRUE

\* "Only accept a single symmetric key per WebSocket"
KxAccepts(c) == symmetricKeyBySocket[c] = NoKey

\* a faulty variant of handleClientKx: what a failed seal_open leaves behind
\* is stored as the key
handleClientKxKeepsFailed(c, f) ==
    IF KxAccepts(c)
    THEN /\ symmetricKeyBySocket' = [symmetricKeyBySocket EXCEPT ![c] = f.key]
         /\ UNCHANGED <<quote, sState, webSocketConnections, wssClients, mocks,
                        appRequests, decrypted, s2c>>
    ELSE SrvUnchanged

\* client_kx: open the sealed box and store the key, once per socket; a
\* box that does not open is logged and nothing is stored
handleClientKx(c, f) ==
    IF KxAccepts(c)
    THEN IF SealOpens(f)
         THEN /\ symmetricKeyBySocket' = [symmetricKeyBySocket EXCEPT ![c] = f.key]
              /\ UNCHANGED <<quote, sState, webSocketConnections, wssClients, mocks,
                             appRequests, decrypted, s2c>>
         ELSE SrvUnchanged
    ELSE SrvUnchanged

\* ------------------------------------------------- relay: tunnelled messages
\* what this.app(req, res) may throw before it returns ("-": nothing)
AppThrows == {"-", "boom"}

\* a faulty variant of ErrorResponse: the failure is reported as a success
ErrorResponseOk(rid, url, msg) == HttpResponse(rid, url, 200, "-")

\* the errorResponse of the error paths: status 500, error: the message
ErrorResponse(rid, url, msg) == HttpResponse(rid, url, 500, msg)

\* handleTunnelHttpRequest: hand the request to the application; when that
\* throws, the catch answers with the error response
handleTunnelHttpRequest(c, m) ==
    /\ \E t \in AppThrows :
          IF t = "-"
          THEN /\ appRequests' = appRequests \cup
                      {[controlWs |-> c, requestId |-> m.id, url |-> m.arg]}
               /\ UNCHANGED s2c
          ELSE /\ s2c' = sendEncrypted(c, ErrorResponse(m.id, m.arg, t))
               /\ UNCHANGED appRequests
    /\ UNCHANGED <<quote, sState, symmetricKeyBySocket, webSocketConnections,
                   wssClients, mocks>>

NewMock(c, cid) ==
    [connectionId |-> cid, via |-> c, readyState |-> "OPEN", code |-> 0,
     msgs |-> <<>>]

\* where the creation of a virtual client may throw: nowhere, in the
\* constructor of the mock, or in wss.addClient
ConnectThrows == {"-", "ctor", "addClient"}

\* a faulty variant of OpenEvent: no open event is announced
OpenEventMissing(cid) == Unknown

\* ws_event { connectionId, eventType: "open" }
OpenEvent(cid) == WsEvent(cid, "open", 0)

\* handleTunnelWebSocketConnect: create the virtual client, track it under
\* connectionId, register it with the mock server, signal open; whatever is
\* thrown on the way is answered with a ws_event error
handleTunnelWebSocketConnect(c, m) ==
    /\ \E t \in ConnectThrows :
          IF t = "ctor"
          THEN /\ s2c' = sendEncrypted(c, WsError(m.id, t))
               /\ UNCHANGED <<mocks, webSocketConnections, wssClients>>
          ELSE /\ mocks' = Append(mocks, NewMock(c, m.id))
               /\ webSocketConnections' = [webSocketConnections EXCEPT
                      ![m.id] = [mockWs |-> Len(mocks) + 1, controlWs |-> c]]
               /\ IF t = "-"
                  THEN /\ wssClients' = wssClients \cup {Len(mocks) + 1}
                       /\ s2c' = sendEncrypted(c, OpenEvent(m.id))
                  ELSE /\ wssClients' \in {wssClients, wssClients \cup {Len(mocks) + 1}}
                       /\ s2c' = sendEncrypted(c, WsError(m.id, t))
    /\ UNCHANGED <<quote, sState, symmetricKeyBySocket, appRequests>>

\* webSocketConnections.get(connectionId)
Lookup(c, cid) == webSocketConnections[cid]

\* the data handed to the virtual client: a Buffer for dataType arraybuffer,
\* the string otherwise
dataToSend(m) ==
    IF m.ev = "arraybuffer"
    THEN [kind |-> "buffer", val |-> m.arg]
    ELSE [kind |-> "string", val |-> m.arg]

\* ServerRAMockWebSocket.emitMessage(data): the host handler receives data
emitMessage(mk, data) == [mk EXCEPT !.msgs = Append(@, data)]

\* handleTunnelWebSocketMessage: emitMessage on the tracked virtual client
handleTunnelWebSocketMessage(c, m) ==
    LET connection == Lookup(c, m.id) IN
    IF connection.mockWs # 0
    THEN /\ mocks' = [mocks EXCEPT ![connection.mockWs] = emitMessage(@, dataToSend(m))]
         /\ UNCHANGED <<quote, sState, symmetricKeyBySocket, webSocketConnections,
                        wssClients, appRequests, s2c>>
    ELSE UNCHANGED <<quote, sState, symmetricKeyBySocket, webSocketConnections,
                     wssClients, mocks, appRequests, s2c>>

\* ServerRAMockWebSocket.emitClose(code, reason)
emitClose(mk, code) == [mk EXCEPT !.readyState = "CLOSED", !.code = code]

\* handleTunnelWebSocketClose: emitClose, deleteClient, forget the mapping
handleTunnelWebSocketClose(c, m) ==
    LET connection == Lookup(c, m.id) IN
    IF connection.mockWs # 0
    THEN /\ mocks' = [mocks EXCEPT ![connection.mockWs] = emitClose(@, m.status)]
         /\ wssClients' = wssClients \ {connection.mockWs}
         /\ webSocketConnections' = [webSocketConnections EXCEPT ![m.id] = NoEntry]
         /\ UNCHANGED <<quote, sState, symmetricKeyBySocket, appRequests, s2c>>
    ELSE UNCHANGED <<quote, sState, symmetricKeyBySocket, webSocketConnections,
                     wssClients, mocks, appRequests, s2c>>

\* the dispatch on the (decrypted) message type
Dispatch(c, f, m) ==
    IF isRAEncryptedHTTPRequest(m)
    THEN handleTunnelHttpRequest(c, m)
    ELSE IF isRAEncryptedClientConnectEvent(m)
    THEN handleTunnelWebSocketConnect(c, m)
    ELSE IF isRAEncryptedWSMessage(m)
    THEN handleTunnelWebSocketMessage(c, m)
    ELSE IF isRAEncryptedClientCloseEvent(m)
    THEN handleTunnelWebSocketClose(c, m)
    ELSE UNCHANGED <<quote, sState, symmetricKeyBySocket, webSocketConnections,
                     wssClients, mocks, appRequests, s2c>>

\* a faulty variant of HandshakeComplete: the missing key goes unnoticed
HandshakeAssumed(c) == TRUE

\* "If handshake not complete yet, ignore any other messages"
HandshakeComplete(c) == symmetricKeyBySocket[c] # NoKey

\* a faulty variant of RequireEncryption: plaintext is let through
RequireEncryptionNever(f) == FALSE

\* "Require encryption post-handshake"
RequireEncryption(f) == ~isControlChannelEncryptedMessage(f)

\* "Decrypt envelope messages post-handshake", then dispatch
DecryptAndDispatch(c, f) ==
    IF isControlChannelEncryptedMessage(f)
    THEN /\ decrypted' = [decrypted EXCEPT ![c] = TRUE]
         /\ IF DecryptOk(c, f)
            THEN Dispatch(c, f, Inner(f))
            ELSE UNCHANGED <<quote, sState, symmetricKeyBySocket,
                             webSocketConnections, wssClients, mocks,
                             appRequests, s2c>>
    ELSE UNCHANGED decrypted /\ Dispatch(c, f, f)

\* the model's bounds on what a handled frame may create
FitsBounds(c, f) ==
    /\ f.inner = "ws_client_connect" \/ f.type = "ws_client_connect"
           => Len(mocks) < MaxMock
    /\ f.inner = "ws_message" \/ f.type = "ws_message"
           => \A i \in 1..Len(mocks) : Len(mocks[i].msgs) < MaxMsgs

\* the branch of the interception that a frame takes
Branch(c, f) ==
    IF f.type = "garbage" THEN "invalid"
    ELSE IF isControlChannelKXConfirm(f)
    THEN IF ~KxAccepts(c) THEN "kx_ignored"
         ELSE IF SealOpens(f) THEN "kx_installed" ELSE "kx_failed"
    ELSE IF ~HandshakeComplete(c) THEN "dropped_prehandshake"
    ELSE IF RequireEncryption(f) THEN "dropped_plaintext"
    ELSE IF isControlChannelEncryptedMessage(f) /\ ~DecryptOk(c, f)
    THEN "decrypt_failed"
    ELSE "dispatched"

\* controlWs.emit("message", data): the whole interception of one frame
ServerOnMessage(c, f) ==
    /\ sState[c] = "OPEN"
    /\ FitsBounds(c, f)
    /\ IF f.type = "garbage"
       THEN SrvUnchanged
       ELSE IF isControlChannelKXConfirm(f)
       THEN handleClientKx(c, f)
       ELSE IF ~HandshakeComplete(c)
       THEN SrvUnchanged
       ELSE IF RequireEncryption(f)
       THEN SrvUnchanged
       ELSE DecryptAndDispatch(c, f)

\* --------------------------------------------------- relay: socket closes
\* the entries of webSocketConnections that belong to controlWs
EntriesOf(c) == {i \in ConnectionIds : webSocketConnections[i].mockWs # 0
                                      /\ webSocketConnections[i].controlWs = c}
MocksOf(c) == {webSocketConnections[i].mockWs : i \in EntriesOf(c)}

\* controlWs.on("close"): drop the key, close and forget the sub-connections
ServerClose(c) ==
    /\ sState[c] = "OPEN"
    /\ sState' = [sState EXCEPT ![c] = "CLOSED"]
    /\ symmetricKeyBySocket' = [symmetricKeyBySocket EXCEPT ![c] = NoKey]
    /\ mocks' = [i \in 1..Len(mocks) |->
                    IF i \in MocksOf(c) THEN emitClose(mocks[i], TunnelClosedCode)
                    ELSE mocks[i]]
    /\ wssClients' = wssClients \ MocksOf(c)
    /\ webSocketConnections' = [i \in ConnectionIds |->
                    IF i \in EntriesOf(c) THEN NoEntry ELSE webSocketConnections[i]]
    /\ c2s' = [c2s EXCEPT ![c] = <<>>]
    /\ UNCHANGED <<quote, appRequests, decrypted, rx, s2c>>

\* ------------------------------------------------ relay: the application
AppOutcomes == {[ev |-> "end", msg |-> "-"],         \* res "end", status 200
                [ev |-> "error", msg |-> "boom"],    \* error with a message
                [ev |-> "error", msg |-> ""]}        \* error with an empty message

\* res.on("end") / res.on("error"): answer one request
AppRespond(r, o) ==
    /\ r \in appRequests
    /\ appRequests' = appRequests \ {r}
    /\ s2c' = sendEncrypted(r.controlWs,
                 IF o.ev = "end"
                 THEN HttpResponse(r.requestId, r.url, 200, "-")
                 ELSE ErrorResponse(r.requestId, r.url, o.msg))
    /\ UNCHANGED <<quote, sState, symmetricKeyBySocket, webSocketConnections,
                   wssClients, mocks, decrypted, rx, c2s>>

\* ------------------------------------- relay: the host's virtual sockets
\* what the host application hands to send(): a string, a Buffer that
\* isTextData takes for text, a Buffer that it does not, a value that is
\* neither a string nor a Buffer
HostPayloads ==
    {[kind |-> "string", text |-> TRUE, val |-> 1],
     [kind |-> "buffer", text |-> TRUE, val |-> 1],
     [kind |-> "buffer", text |-> FALSE, val |-> 2],
     [kind |-> "other", text |-> FALSE, val |-> 3]}
HostCloseCodes == {1001}

isTextData(payload) == payload.text

\* onSend: the dataType chosen for a payload
dataTypeOf(payload) ==
    IF payload.kind = "string" THEN "string"
    ELSE IF payload.kind = "buffer"
    THEN IF isTextData(payload) THEN "string" ELSE "arraybuffer"
    ELSE "string"

\* onSend (application -> client): a ws_message on the control socket the
\* virtual socket was created through
onSend(k, payload) ==
    s2c' = sendEncrypted(mocks[k].via,
               WsMessageOf(mocks[k].connectionId, payload.val, dataTypeOf(payload)))

\* onClose (application -> client): a ws_event close on that control socket
onClose(k, code) ==
    s2c' = sendEncrypted(mocks[k].via, WsEvent(mocks[k].connectionId, "close", code))

\* ServerRAMockWebSocket.close(code, reason)
close(mk, code) == [mk EXCEPT !.readyState = "CLOSED", !.code = code]

\* the host application sends on an open virtual socket
HostSend(k, payload) ==
    /\ k \in 1..Len(mocks)
    /\ mocks[k].readyState = "OPEN"
    /\ Len(s2c[mocks[k].via]) < MaxInFlight
    /\ onSend(k, payload)
    /\ UNCHANGED <<quote, sState, symmetricKeyBySocket, webSocketConnections,
                   wssClients, mocks, appRequests, decrypted, rx, c2s, clientVars, qvlVars>>

\* the host application closes an open virtual socket
HostClose(k, code) ==
    /\ k \in 1..Len(mocks)
    /\ mocks[k].readyState = "OPEN"
    /\ mocks' = [mocks EXCEPT ![k] = close(@, code)]
    /\ onClose(k, code)
    /\ UNCHANGED <<quote, sState, symmetricKeyBySocket, webSocketConnections,
                   wssClients, appRequests, decrypted, rx, c2s, clientVars, qvlVars>>

\* ------------------------------------------- arbitrary peers of the relay
PeerKeys == {1, 2}
KxFrames == {ClientKx(k, ServerPub) : k \in PeerKeys} \cup {ClientKx(1, OtherPub)}
WsMessages ==
    {WsConnect(i) : i \in ConnectionIds}
    \cup {WsMessage(i, 1) : i \in ConnectionIds}
    \cup {WsClientClose(i, code) : i \in ConnectionIds, code \in PeerCloseCodes}
PeerMessages == {HttpRequest(1, 1), Unknown} \cup WsMessages

\* what a peer may send while the key exchange and the drops are studied
PeerFramesKx ==
    {Garbage} \cup KxFrames \cup PeerMessages
    \cup {Enc(k, m) : k \in PeerKeys, m \in {HttpRequest(1, 1), Unknown}}

\* what a peer may send while the sub-connections are studied
PeerFramesWs ==
    {ClientKx(1, ServerPub)} \cup {Enc(1, m) : m \in WsMessages}

\* a peer opens a control socket
PeerConnect(c) ==
    /\ c <= MaxPeers
    /\ cState[c] = "NONE"
    /\ \A d \in Conn : d < c => cState[d] # "NONE"
    /\ cState' = [cState EXCEPT ![c] = "CONNECTING"]
    /\ UNCHANGED <<serverVars, qvlVars, netVars, ws, closePending, connectionPromise,
                   promState, symmetricKey, serverX25519PublicKey,
                   pendingRequests, fetches, reconnectTimers, keygen>>

\* the relay accepts the peer's socket
PeerAccepted(c) == upgrade(c, ControlPath) /\ UNCHANGED <<clientVars, qvlVars>>

\* a peer asks for an upgrade on a url of its choice
PeerUpgrade(c, url) == upgrade(c, url) /\ UNCHANGED <<clientVars, qvlVars>>

\* the relay receives a frame a peer chose, the peer having read what the
\* relay sent before
PeerFrame(c, f) ==
    /\ s2c[c] = <<>>
    /\ ServerOnMessage(c, f)
    /\ rx' = [conn |-> c, outcome |-> Branch(c, f)]
    /\ UNCHANGED <<c2s, clientVars, qvlVars>>

\* the peer takes the next frame off the socket
PeerReceive(c) ==
    /\ s2c[c] # <<>>
    /\ s2c' = [s2c EXCEPT ![c] = Tail(@)]
    /\ UNCHANGED <<serverVars, qvlVars, c2s, clientVars>>

\* the peer's socket closes
PeerGone(c) == ServerClose(c) /\ UNCHANGED <<clientVars, qvlVars>>

\* the application answers a peer's request
PeerAnswered(r) ==
    AppRespond(r, [ev |-> "end", msg |-> "-"]) /\ UNCHANGED <<clientVars, qvlVars>>

NextKx ==
    \/ \E c \in Conn : PeerConnect(c)
    \/ \E c \in Conn : PeerAccepted(c)
    \/ \E c \in Conn, f \in PeerFramesKx : PeerFrame(c, f)
    \/ \E c \in Conn : PeerReceive(c)
    \/ \E c \in Conn : PeerGone(c)
    \/ \E r \in appRequests : PeerAnswered(r)

SpecKx == Init /\ [][NextKx]_vars

NextWs ==
    \/ \E c \in Conn : PeerConnect(c)
    \/ \E c \in Conn : PeerAccepted(c)
    \/ \E c \in Conn, f \in PeerFramesWs : PeerFrame(c, f)
    \/ \E c \in Conn : PeerReceive(c)
    \/ \E c \in Conn : PeerGone(c)

SpecWs == Init /\ [][NextWs]_vars

\* peers that ask for upgrades on any url and then exchange keys
NextUp ==
    \/ \E c \in Conn : PeerConnect(c)
    \/ \E c \in Conn, url \in UpgradeUrls : PeerUpgrade(c, url)
    \/ \E c \in Conn, f \in KxFrames : PeerFrame(c, f)
    \/ \E c \in Conn : PeerReceive(c)
    \/ \E c \in Conn : PeerGone(c)

SpecUp == Init /\ [][NextUp]_vars

\* what a peer may send while the host side of the sub-connections is
\* studied: text and binary messages, and an HTTP request in between
HostMessages ==
    {WsConnect(i) : i \in ConnectionIds}
    \cup {WsMessageOf(i, 1, "string") : i \in ConnectionIds}
    \cup {WsMessageOf(i, 2, "arraybuffer") : i \in ConnectionIds}
    \cup {WsClientClose(i, code) : i \in ConnectionIds, code \in PeerCloseCodes}
    \cup {HttpRequest(1, 1)}
PeerFramesHost ==
    {ClientKx(1, ServerPub)} \cup {Enc(1, m) : m \in HostMessages}

\* a peer with sub-connections, and the host application using them
NextHost ==
    \/ \E c \in 1..MaxHostPeers : PeerConnect(c)
    \/ \E c \in 1..MaxHostPeers : PeerAccepted(c)
    \/ \E c \in 1..MaxHostPeers, f \in PeerFramesHost : PeerFrame(c, f)
    \/ \E c \in 1..MaxHostPeers : PeerReceive(c)
    \/ \E c \in 1..MaxHostPeers : PeerGone(c)
    \/ \E r \in appRequests : PeerAnswered(r)
    \/ \E k \in 1..MaxMock, payload \in HostPayloads : HostSend(k, payload)
    \/ \E k \in 1..MaxMock, code \in HostCloseCodes : HostClose(k, code)

\* the quote plays no part on the host side: one quote is enough
InitHost == Init /\ quote = "good"

SpecHost == InitHost /\ [][NextHost]_vars

\* ------------------------------------------------------ client: sockets
\* ensureConnection has to create a socket: `ws` is not open and no
\* connection promise is kept
NeedsSocket == ~(ws # 0 /\ cState[ws] = "OPEN") /\ connectionPromise = 0

\* the next WebSocket object
NewSock == Cardinality({c \in Conn : cState[c] # "NONE"}) + 1

\* new WebSocket(controlUrl), kept in `ws`, with its connection promise; the
\* client opens no more than n sockets
OpenSocket(n) ==
    /\ NewSock <= n
    /\ ws' = NewSock
    /\ cState' = [cState EXCEPT ![NewSock] = "CONNECTING"]
    /\ connectionPromise' = NewSock
    /\ promState' = [promState EXCEPT ![NewSock] = "pending"]

\* ensureConnection(), called by the application
ensureConnection(n) ==
    /\ NeedsSocket
    /\ OpenSocket(n)
    /\ UNCHANGED <<closePending, symmetricKey, serverX25519PublicKey,
                   pendingRequests, fetches, reconnectTimers, keygen>>
    /\ UNCHANGED <<serverVars, qvlVars, netVars>>

\* the reconnect timer set by onclose fires: ensureConnection()
ReconnectTimer(n) ==
    /\ reconnectTimers > 0
    /\ reconnectTimers' = reconnectTimers - 1
    /\ IF NeedsSocket
       THEN OpenSocket(n)
       ELSE UNCHANGED <<ws, cState, connectionPromise, promState>>
    /\ UNCHANGED <<closePending, symmetricKey, serverX25519PublicKey,
                   pendingRequests, fetches, keygen>>
    /\ UNCHANGED <<serverVars, qvlVars, netVars>>

\* the socket opens (onopen does nothing)
ClientOpen(c) ==
    /\ cState[c] = "CONNECTING"
    /\ sState[c] # "NONE"
    /\ cState' = [cState EXCEPT ![c] = "OPEN"]
    /\ UNCHANGED <<ws, closePending, connectionPromise, promState, symmetricKey,
                   serverX25519PublicKey, pendingRequests, fetches,
                   reconnectTimers, keygen>>
    /\ UNCHANGED <<serverVars, qvlVars, netVars>>

\* the application closes the control socket: enc.ws.close(4000, ...)
disconnectRA ==
    /\ ws # 0
    /\ cState[ws] = "OPEN"
    /\ cState' = [cState EXCEPT ![ws] = "CLOSING"]
    /\ UNCHANGED <<ws, closePending, connectionPromise, promState, symmetricKey,
                   serverX25519PublicKey, pendingRequests, fetches,
                   reconnectTimers, keygen>>
    /\ UNCHANGED <<serverVars, qvlVars, netVars>>

\* ------------------------------------------------------- client: fetch
NewFetch == [st |-> "connecting", await |-> 0, by |-> "-",
             url |-> 0, status |-> 0, err |-> "-"]

\* a faulty variant of CanSend: a missing key does not stop the send
CanSendKeyless(key) == ws # 0 /\ cState[ws] = "OPEN"

\* RA.send(message) of an inner message: the socket must be open and the key
\* set, or it throws
CanSend(key) == ws # 0 /\ cState[ws] = "OPEN" /\ key # NoKey

\* the part of fetch after `await this.ensureConnection()`, for call i, with
\* the key the client holds: register the waiter, send, start the timer; a
\* failing send rejects the call
FetchSend(st, i, key) ==
    IF CanSend(key)
    THEN [fetches |-> [st.fetches EXCEPT ![i].st = "pending", ![i].await = 0],
          pending |-> st.pending \cup {i},
          c2s |-> ToServer(st.c2s, ws, Enc(key, HttpRequest(i, i)))]
    ELSE [fetches |-> [st.fetches EXCEPT ![i].st = "rejected", ![i].by = "send",
                                         ![i].await = 0],
          pending |-> st.pending \cup {i},
          c2s |-> st.c2s]

\* every call waiting for the promise of socket c goes on, oldest first
RECURSIVE ResumeFetches(_, _, _, _)
ResumeFetches(st, c, key, i) ==
    IF i > Len(st.fetches) THEN st
    ELSE IF st.fetches[i].st = "connecting" /\ st.fetches[i].await = c
         THEN ResumeFetches(FetchSend(st, i, key), c, key, i + 1)
         ELSE ResumeFetches(st, c, key, i + 1)

\* every call waiting for the promise of socket c fails with the promise
FailFetches(fs, c) ==
    [i \in 1..Len(fs) |->
        IF fs[i].st = "connecting" /\ fs[i].await = c
        THEN [fs[i] EXCEPT !.st = "rejected", !.by = "connect", !.await = 0]
        ELSE fs[i]]

\* generateRequestId(): an identifier no earlier call has used
generateRequestId == Len(fetches) + 1

\* fetch(input, init)
fetch(n) ==
    /\ Len(fetches) < MaxFetch
    /\ LET i == generateRequestId
           fs == Append(fetches, NewFetch)
       IN IF ws # 0 /\ cState[ws] = "OPEN"
          THEN LET r == FetchSend([fetches |-> fs, pending |-> pendingRequests,
                                   c2s |-> c2s], i, symmetricKey)
               IN /\ fetches' = r.fetches
                  /\ pendingRequests' = r.pending
                  /\ c2s' = r.c2s
                  /\ UNCHANGED <<ws, cState, connectionPromise, promState>>
          ELSE IF connectionPromise # 0
          THEN /\ fetches' = [fs EXCEPT ![i].await = connectionPromise]
               /\ UNCHANGED <<ws, cState, connectionPromise, promState,
                              pendingRequests, c2s>>
          ELSE /\ OpenSocket(n)
               /\ fetches' = [fs EXCEPT ![i].await = NewSock]
               /\ UNCHANGED <<pendingRequests, c2s>>
    /\ UNCHANGED <<closePending, symmetricKey, serverX25519PublicKey,
                   reconnectTimers, keygen>>
    /\ UNCHANGED <<serverVars, qvlVars, s2c>>

\* the timer of call i was started: the request was sent (a call rejected
\* before that has by = "connect" or "send")
TimerStarted(i) == fetches[i].st = "pending" \/ fetches[i].by \in {"response", "error", "timeout"}

\* a faulty variant of FetchTimeout: the call is rejected, the waiter stays
FetchTimeoutLeak(i) ==
    /\ i \in 1..Len(fetches)
    /\ TimerStarted(i)
    /\ i \in pendingRequests
    /\ fetches' = [fetches EXCEPT ![i].st = "rejected", ![i].by = "timeout"]
    /\ UNCHANGED <<pendingRequests, ws, cState, closePending, connectionPromise,
                   promState, symmetricKey, serverX25519PublicKey,
                   reconnectTimers, keygen>>
    /\ UNCHANGED <<serverVars, qvlVars, netVars>>

\* the 30 s timer of call i fires: a waiter still registered is removed and
\* the call rejected; otherwise nothing happens
FetchTimeout(i) ==
    /\ i \in 1..Len(fetches)
    /\ TimerStarted(i)
    /\ IF i \in pendingRequests
       THEN /\ pendingRequests' = pendingRequests \ {i}
            /\ fetches' = [fetches EXCEPT ![i].st = "rejected", ![i].by = "timeout"]
       ELSE UNCHANGED <<pendingRequests, fetches>>
    /\ UNCHANGED <<ws, cState, closePending, connectionPromise, promState,
                   symmetricKey, serverX25519PublicKey, reconnectTimers, keygen>>
    /\ UNCHANGED <<serverVars, qvlVars, netVars>>

\* `if (response.error)`: the error field is present and not the empty string
Truthy(e) == e \notin {"-", ""}

\* a faulty variant of Waiter: the oldest waiter, whatever the requestId
WaiterAny(rid) ==
    IF pendingRequests = {} THEN 0
    ELSE CHOOSE w \in pendingRequests : \A v \in pendingRequests : w <= v

\* pendingRequests.get(response.requestId): the call whose waiter is
\* registered under rid (0: none)
Waiter(rid) == IF rid \in pendingRequests THEN rid ELSE 0

\* handleTunnelResponse
handleTunnelResponse(m) ==
    LET w == Waiter(m.id) IN
    IF w = 0
    THEN UNCHANGED <<pendingRequests, fetches>>
    ELSE /\ pendingRequests' = pendingRequests \ {w}
         /\ IF fetches[w].st # "pending"
            THEN UNCHANGED fetches
            ELSE IF Truthy(m.err)
            THEN fetches' = [fetches EXCEPT ![w].st = "rejected",
                                ![w].by = "error", ![w].err = m.err]
            ELSE fetches' = [fetches EXCEPT ![w].st = "resolved",
                                ![w].by = "response", ![w].url = m.arg,
                                ![w].status = m.status]

\* ------------------------------------------------ client: inbound frames
\* quote verification (parse, signature, PCK chain, TCB hook) accepts the quote
QuoteVerifies(q) == q = "good"

\* the match policy the application passes to initialize
Match(q) == TRUE

\* a faulty variant of crypto_secretbox_keygen: a key once held is kept
KeyOfPriorSession == IF symmetricKey # NoKey THEN symmetricKey ELSE keygen + 1

\* sodium.crypto_secretbox_keygen(): a key that was never drawn before
crypto_secretbox_keygen == keygen + 1

\* onmessage, server_kx: draw a key, seal it to the announced public key,
\* keep both, send client_kx on `ws`, settle the promise of this socket
onServerKx(c, f) ==
    LET key == crypto_secretbox_keygen IN
    /\ keygen' = key
    /\ serverX25519PublicKey' = f.pub
    /\ symmetricKey' = key
    /\ connectionPromise' = 0
    /\ IF ws # 0 /\ cState[ws] = "OPEN"
       THEN LET sent == ToServer(c2s, ws, ClientKx(key, f.pub))
                r == ResumeFetches([fetches |-> fetches,
                                    pending |-> pendingRequests, c2s |-> sent],
                                   c, key, 1)
            IN /\ promState' = [promState EXCEPT
                       ![c] = IF @ = "pending" THEN "resolved" ELSE @]
               /\ fetches' = r.fetches
               /\ pendingRequests' = r.pending
               /\ c2s' = r.c2s
       ELSE /\ promState' = [promState EXCEPT
                       ![c] = IF @ = "pending" THEN "rejected" ELSE @]
            /\ fetches' = FailFetches(fetches, c)
            /\ UNCHANGED <<pendingRequests, c2s>>

\* onmessage, enc: decrypt with the key held and dispatch
onEncrypted(c, f) ==
    /\ IF symmetricKey # NoKey /\ f.key = symmetricKey /\ f.inner = "http_response"
       THEN handleTunnelResponse(Inner(f))
       ELSE UNCHANGED <<pendingRequests, fetches>>
    /\ UNCHANGED <<connectionPromise, promState, symmetricKey,
                   serverX25519PublicKey, keygen, c2s>>

\* ws.onmessage of socket c
ClientOnMessage(c) ==
    /\ cState[c] \in {"OPEN", "CLOSING"}
    /\ s2c[c] # <<>>
    /\ s2c' = [s2c EXCEPT ![c] = Tail(@)]
    /\ LET f == Head(s2c[c]) IN
       IF f.type = "server_kx" THEN onServerKx(c, f)
       ELSE IF f.type = "enc" THEN onEncrypted(c, f)
       ELSE UNCHANGED <<connectionPromise, promState, symmetricKey,
                        serverX25519PublicKey, keygen, c2s, pendingRequests,
                        fetches>>
    /\ UNCHANGED <<ws, cState, closePending, reconnectTimers>>
    /\ UNCHANGED <<serverVars, qvlVars>>

\* ws.onerror of socket c: the connection attempt failed
ClientOnError(c) ==
    /\ cState[c] = "CONNECTING"
    /\ sState[c] = "NONE"
    /\ cState' = [cState EXCEPT ![c] = "CLOSED"]
    /\ closePending' = [closePending EXCEPT ![c] = TRUE]
    /\ connectionPromise' = 0
    /\ promState' = [promState EXCEPT ![c] = IF @ = "pending" THEN "rejected" ELSE @]
    /\ fetches' = FailFetches(fetches, c)
    /\ UNCHANGED <<ws, symmetricKey, serverX25519PublicKey, pendingRequests,
                   reconnectTimers, keygen>>
    /\ UNCHANGED <<serverVars, qvlVars, netVars>>

\* ws.onclose of socket c: forget the promise, schedule a reconnect
ClientOnClose(c) ==
    /\ cState[c] \in {"OPEN", "CLOSING"} \/ closePending[c]
    /\ cState' = [cState EXCEPT ![c] = "CLOSED"]
    /\ closePending' = [closePending EXCEPT ![c] = FALSE]
    /\ connectionPromise' = 0
    /\ reconnectTimers' = reconnectTimers + 1
    /\ s2c' = [s2c EXCEPT ![c] = <<>>]
    /\ UNCHANGED <<ws, promState, symmetricKey, serverX25519PublicKey,
                   pendingRequests, fetches, keygen>>
    /\ UNCHANGED <<serverVars, qvlVars, c2s>>

\* ------------------------------------------------- the relay and the client
\* the relay accepts the client's socket
Accept(c) == upgrade(c, ControlPath) /\ UNCHANGED <<clientVars, qvlVars>>

\* the relay takes the next frame of the client off the socket
ServerReceive(c) ==
    /\ c2s[c] # <<>>
    /\ ServerOnMessage(c, Head(c2s[c]))
    /\ c2s' = [c2s EXCEPT ![c] = Tail(@)]
    /\ UNCHANGED <<rx, clientVars, qvlVars>>

\* the server end of the socket closes
ServerGone(c) == ServerClose(c) /\ UNCHANGED <<clientVars, qvlVars>>

\* the application answers a request
Answered(r, o) == AppRespond(r, o) /\ UNCHANGED <<clientVars, qvlVars>>

\* the application connects and disconnects, and sends no request
NextConn ==
    \/ ensureConnection(MaxConn)
    \/ ReconnectTimer(MaxConn)
    \/ disconnectRA
    \/ \E c \in Conn : ClientOpen(c)
    \/ \E c \in Conn : ClientOnMessage(c)
    \/ \E c \in Conn : ClientOnError(c)
    \/ \E c \in Conn : ClientOnClose(c)
    \/ \E c \in Conn : Accept(c)
    \/ \E c \in Conn : ServerReceive(c)
    \/ \E c \in Conn : ServerGone(c)

SpecConn == Init /\ [][NextConn]_vars

\* the application also sends requests, over MaxSessions sockets
Next ==
    \/ ensureConnection(MaxSessions)
    \/ ReconnectTimer(MaxSessions)
    \/ fetch(MaxSessions)
    \/ disconnectRA
    \/ \E i \in 1..MaxFetch : FetchTimeout(i)
    \/ \E c \in Conn : ClientOpen(c)
    \/ \E c \in Conn : ClientOnMessage(c)
    \/ \E c \in Conn : ClientOnError(c)
    \/ \E c \in Conn : ClientOnClose(c)
    \/ \E c \in Conn : Accept(c)
    \/ \E c \in Conn : ServerReceive(c)
    \/ \E c \in Conn : ServerGone(c)
    \/ \E r \in appRequests, o \in AppOutcomes : Answered(r, o)

Spec == Init /\ [][Next]_vars

\* whoever holds the server end of a control socket announces its key again
ServerKxAgain(c) ==
    /\ sState[c] = "OPEN"
    /\ cState[c] # "CLOSED"
    /\ Len(s2c[c]) < MaxInFlight
    /\ keygen < MaxKeys
    /\ s2c' = ToClient(s2c, c, ServerKx(ServerPub, quote))
    /\ UNCHANGED <<serverVars, qvlVars, c2s, clientVars>>

\* the client facing a relay that may announce its key more than once
NextAgain ==
    \/ ensureConnection(MaxSessions)
    \/ ReconnectTimer(MaxSessions)
    \/ disconnectRA
    \/ \E c \in Conn : ClientOpen(c)
    \/ \E c \in Conn : ClientOnMessage(c)
    \/ \E c \in Conn : ClientOnError(c)
    \/ \E c \in Conn : ClientOnClose(c)
    \/ \E c \in Conn : Accept(c)
    \/ \E c \in Conn : ServerKxAgain(c)
    \/ \E c \in Conn : ServerReceive(c)
    \/ \E c \in Conn : ServerGone(c)

SpecAgain == Init /\ [][NextAgain]_vars

\* --------------------------------------------- quote verification: TCB hook
\* the evaluation time of the hook
BASE_TIME == 1

\* the tunnel stays as it is while the library is studied
TunnelIdle == InitTunnel /\ quote = "good"
LibraryStep == UNCHANGED <<serverVars, netVars, clientVars, sample>>

\* svn values required by a TCB level: 256 stands for a value that is not a
\* realistic 0..255 svn
SvnRequired == {0, 1, 256}
TcbStatuses == {"UpToDate", "SWHardeningNeeded", "ConfigurationNeeded"}

\* level.tcb and level.tcbStatus of tcbInfo.tcbLevels
TcbLevels ==
    [pcesvn : 0..MaxSvn, comps : [1..MaxComp -> SvnRequired], tcbStatus : TcbStatuses]

\* IntelTcbInfo: the components of a level come as arrays (sgxtcbcomponents,
\* tdxtcbcomponents) or as flat keys (sgxtcbcompNNsvn, tdxtcbcompNNsvn)
TcbInfos ==
    [form : {"array", "flat"},
     issueDate : {0, 2}, nextUpdate : {0, 2},
     tcbLevels : UNION {[1..n -> TcbLevels] : n \in 0..MaxLevels}]

\* what the hook reads of the quote: cpu_svn or tee_tcb_svn, and pce_svn
TcbQuotes ==
    [tee : {"sgx", "tdx"}, pce_svn : 0..MaxSvn, cpu_svn : [1..MaxComp -> 0..MaxSvn]]

TcbSamples == [kind : {"tcb"}, quote : TcbQuotes, tcbInfo : TcbInfos]

\* "Only enforce checks for realistic 0..255 values"
Enforced(required) == required >= 0 /\ required <= 255

\* cpuOk of one level
cpuOk(tdx, form, level, cpuSvn) ==
    IF tdx /\ form = "array"
    THEN \A i \in 1..(IF Len(level.comps) < Len(cpuSvn)
                      THEN Len(level.comps) ELSE Len(cpuSvn)) :
             ~(Enforced(level.comps[i]) /\ cpuSvn[i] < level.comps[i])
    ELSE \A comp \in 1..16 :
             form = "flat" /\ comp \in DOMAIN level.comps
             => ~(Enforced(level.comps[comp]) /\ cpuSvn[comp] < level.comps[comp])

\* pceOk of one level
pceOk(level, pceSvn) == pceSvn >= level.pcesvn

\* the loop over tcbInfo.tcbLevels: the status of the first level that is
\* satisfied, "null" when there is none
RECURSIVE statusFound(_, _, _, _, _)
statusFound(levels, i, tdx, form, q) ==
    IF i > Len(levels) THEN "null"
    ELSE IF cpuOk(tdx, form, levels[i], q.cpu_svn) /\ pceOk(levels[i], q.pce_svn)
    THEN levels[i].tcbStatus
    ELSE statusFound(levels, i + 1, tdx, form, q)

\* the hook built by getVerifyTcb: what it leaves in stateRef and returns
verifyTcb(q, tcbInfo) ==
    LET now == BASE_TIME
        freshnessOk == tcbInfo.issueDate <= now /\ now <= tcbInfo.nextUpdate
        found == statusFound(tcbInfo.tcbLevels, 1, q.tee = "tdx", tcbInfo.form, q)
        status == IF found = "null" THEN "OutOfDate" ELSE found
    IN [kind |-> "tcb", status |-> status, freshnessOk |-> freshnessOk,
        valid |-> freshnessOk /\ status \in {"UpToDate", "ConfigurationNeeded"}]

\* the hook is called for the sample
EvaluateTcb ==
    /\ sample.kind = "tcb"
    /\ result.kind = "none"
    /\ result' = verifyTcb(sample.quote, sample.tcbInfo)
    /\ LibraryStep

InitTcb == TunnelIdle /\ sample \in TcbSamples /\ result = NoResult
NextTcb == EvaluateTcb
SpecTcb == InitTcb /\ [][NextTcb]_vars

\* ------------------------------------ quote verification: verifySgx, verifyTdx
\* FMSPC values of PCK leaf certificates
Fmspcs == {"30606a000000", "00806f050000"}

\* the option under which the caller hands over the hook
HookOptions == {"verifyTcb", "verifyFmspc"}

\* a quote with its certification data, and the options of one call:
\* cryptoOk stands for the quote's signatures, QE report binding and PCK
\* chain being valid at options.date; hook is the caller's predicate, which
\* hears the FMSPC and has every quote at hand
VerifySamples ==
    [kind : {"verify"},
     quote : [tee : {"sgx", "tdx"}, pce_svn : 0..MaxSvn],
     cryptoOk : BOOLEAN,
     fmspc : Fmspcs,
     option : HookOptions,
     hook : [Fmspcs -> BOOLEAN]]

\* kept for comparison: the FMSPC of another platform
fmspcOfOther(s) == CHOOSE f \in Fmspcs : f # s.fmspc

\* the FMSPC taken from the SGX extension of the PCK leaf
extractFmspc(s) == s.fmspc

\* kept for comparison: a verification that never asks the hook
hookSkipped(s) == TRUE

\* the hook's answer for the FMSPC of the leaf and the parsed quote
callHook(s) == s.hook[extractFmspc(s)]

\* the outcomes of verifySgx / verifyTdx: the returned value, or the error
\* thrown, and what the hook was called with
verifyQuote(s) ==
    IF ~s.cryptoOk
    THEN {[kind |-> "verify", outcome |-> "throws", hookFmspc |-> "-", hookQuote |-> NoSample]}
    ELSE {[kind |-> "verify",
           outcome |-> IF callHook(s) THEN "true"
                       ELSE IF s.option = "verifyTcb" THEN "false"
                       ELSE "throws TCB validation failed",
           hookFmspc |-> extractFmspc(s),
           hookQuote |-> s.quote]}

Verify ==
    /\ sample.kind = "verify"
    /\ result.kind = "none"
    /\ result' \in verifyQuote(sample)
    /\ LibraryStep

\* ------------------------------------- quote verification: the PCK chain
\* the certificates of a PCK bundle: the leaf, the platform CA, Intel's
\* root, and a self-signed root of the same name that Intel did not issue
PckLeaf ==
    [subject |-> "Intel SGX PCK Certificate", issuer |-> "Intel SGX PCK Platform CA",
     serial |-> 1, notAfter |-> 2, sha256 |-> "leaf"]
PckPlatformCa ==
    [subject |-> "Intel SGX PCK Platform CA", issuer |-> "Intel SGX Root CA",
     serial |-> 2, notAfter |-> 2, sha256 |-> "platform"]
IntelRootCa ==
    [subject |-> "Intel SGX Root CA", issuer |-> "Intel SGX Root CA",
     serial |-> 3, notAfter |-> 2, sha256 |-> "intel root"]
OtherRootCa ==
    [subject |-> "Intel SGX Root CA", issuer |-> "Intel SGX Root CA",
     serial |-> 4, notAfter |-> 2, sha256 |-> "other root"]

\* the roots the library pins
PinnedRoots == {IntelRootCa.sha256}

\* the bundles: leaf, platform CA and one root, in every order
Orders(S) == {b \in [1..Cardinality(S) -> S] : \A i, j \in DOMAIN b : b[i] = b[j] => i = j}
PckBundles == UNION {Orders({PckLeaf, PckPlatformCa, r}) : r \in {IntelRootCa, OtherRootCa}}

\* extractPemCertificates(cert_data), the evaluation time (none when the
\* caller passes null) and the serials the supplied CRLs revoke
ChainSamples ==
    [kind : {"chain"}, certs : PckBundles, timed : BOOLEAN, time : {1, 3},
     revoked : SUBSET {PckLeaf.serial, PckPlatformCa.serial}]

Certs(b) == {b[i] : i \in DOMAIN b}

\* kept for comparison: the chain in the order the bundle came in
chainAsGiven(b) == b

\* normalization by issuer matching: the leaf is the certificate that issued
\* none of the others, the intermediate the one that issued the leaf, the root
\* the one that issued the intermediate
normalizeChain(b) ==
    LET leaf == CHOOSE c \in Certs(b) : \A d \in Certs(b) \ {c} : d.issuer # c.subject
        intermediate == CHOOSE c \in Certs(b) \ {leaf} : c.subject = leaf.issuer
        root == CHOOSE c \in Certs(b) \ {leaf, intermediate} : c.subject = intermediate.issuer
    IN <<leaf, intermediate, root>>

isPinnedRootCertificate(c) == c.sha256 \in PinnedRoots

\* the result of the chain verification
verifyPCKChain(s) ==
    LET chain == normalizeChain(s.certs)
        status ==
            IF s.timed /\ \E i \in 1..3 : s.time > chain[i].notAfter THEN "expired"
            ELSE IF ~isPinnedRootCertificate(chain[3]) THEN "untrusted_root"
            ELSE IF \E i \in 1..2 : chain[i].serial \in s.revoked THEN "revoked"
            ELSE "valid"
    IN [kind |-> "chain", status |-> status, root |-> chain[3], chain |-> chain]

VerifyChain ==
    /\ sample.kind = "chain"
    /\ result.kind = "none"
    /\ result' = verifyPCKChain(sample)
    /\ LibraryStep

\* --------------------------------------- quote verification: the quote parser
\* A quote is a sequence of numbers laid out as the TDX v4 quote is laid out
\* in bytes, every field scaled to one number: header (version, tee_type),
\* body (mr_td, report_data), the length of the signature data, and the
\* signature data: signature, attestation_public_key, the length of
\* qe_auth_data, qe_auth_data and, when the quote carries certification data,
\* cert_data_type, the length of cert_data and cert_data.
HEADER_LEN == 2
BODY_LEN == 2
FIXED_LEN == 3
TDX_VERSION == 4
TDX_TEE_TYPE == 129
PCK_CERT_DATA_TYPE == 5
Modulus == 251

RECURSIVE digest(_)
digest(msg) ==
    IF msg = <<>> THEN 0
    ELSE (digest(SubSeq(msg, 1, Len(msg) - 1)) + Len(msg) * msg[Len(msg)]) % Modulus

\* the signature of msg under the attestation key, and its verification
ecdsaSign(key, msg) == (digest(msg) + key) % Modulus
ecdsaVerify(key, msg, sig) == sig = ecdsaSign(key, msg)

\* what a quote is made from: the measurements, the attestation key, the
\* region the quoting enclave signed, qe_auth_data and the certification data
QuoteFields ==
    [mr_td : {10, 11}, report_data : {20, 21}, key : {1, 2},
     signed : {"header+body", "body"},
     qe_auth_data : {<<>>, <<7>>},
     cert : {"absent", "empty", "pem"}]

certTail(f) ==
    IF f.cert = "absent" THEN <<>>
    ELSE IF f.cert = "empty" THEN <<PCK_CERT_DATA_TYPE, 0>>
    ELSE <<PCK_CERT_DATA_TYPE, 1, 9>>

\* the bytes of the quote, as rebuildQuoteWithCertData puts them together
buildQuote(f) ==
    LET header == <<TDX_VERSION, TDX_TEE_TYPE>>
        body == <<f.mr_td, f.report_data>>
        region == IF f.signed = "body" THEN body ELSE header \o body
        sigData == <<ecdsaSign(f.key, region), f.key, Len(f.qe_auth_data)>>
                   \o f.qe_auth_data \o certTail(f)
    IN header \o body \o <<Len(sigData)>> \o sigData

ParseSamples == {[kind |-> "parse", fields |-> f, quote |-> buildQuote(f)] : f \in QuoteFields}

\* the signed region: header followed by body
getTdx10SignedRegion(q) == SubSeq(q, 1, HEADER_LEN + BODY_LEN)

sigDataOf(q) ==
    LET signedLen == Len(getTdx10SignedRegion(q))
        sigLen == q[signedLen + 1]
    IN SubSeq(q, signedLen + 2, signedLen + 1 + sigLen)

NoCertData == [cert_data_type |-> "null", cert_data |-> "null"]

\* kept for comparison: a parser that insists on certification data
certDataRequired(sigData, off) ==
    IF Len(sigData) < off + 2 THEN [error |-> "TruncatedField"]
    ELSE [cert_data_type |-> sigData[off + 1],
          cert_data |-> SubSeq(sigData, off + 3, off + 2 + sigData[off + 2])]

\* cert_data_type and cert_data behind qe_auth_data: null when the signature
\* data ends there or the certification data is empty
parseCertData(sigData, off) ==
    IF Len(sigData) < off + 2 THEN NoCertData
    ELSE IF sigData[off + 2] = 0 THEN NoCertData
    ELSE IF Len(sigData) < off + 2 + sigData[off + 2] THEN [error |-> "LengthOverflow"]
    ELSE [cert_data_type |-> sigData[off + 1],
          cert_data |-> SubSeq(sigData, off + 3, off + 2 + sigData[off + 2])]

parseTdxQuote(q) ==
    IF Len(q) < HEADER_LEN + BODY_LEN + 1 THEN [error |-> "TruncatedField"]
    ELSE IF q[1] # TDX_VERSION THEN [error |-> "UnsupportedVersion"]
    ELSE IF q[2] # TDX_TEE_TYPE THEN [error |-> "UnsupportedTeeType"]
    ELSE IF Len(q) < HEADER_LEN + BODY_LEN + 1 + q[HEADER_LEN + BODY_LEN + 1]
    THEN [error |-> "LengthOverflow"]
    ELSE LET sigData == sigDataOf(q)
         IN IF Len(sigData) < FIXED_LEN \/ Len(sigData) < FIXED_LEN + sigData[FIXED_LEN]
            THEN [error |-> "TruncatedField"]
            ELSE LET qeAuthLen == sigData[FIXED_LEN]
                     cert == parseCertData(sigData, FIXED_LEN + qeAuthLen)
                 IN IF "error" \in DOMAIN cert THEN cert
                    ELSE [error |-> "none",
                          header |-> [version |-> q[1], tee_type |-> q[2]],
                          body |-> [mr_td |-> q[HEADER_LEN + 1],
                                    report_data |-> q[HEADER_LEN + 2]],
                          signature |->
                              [signature |-> sigData[1],
                               attestation_public_key |-> sigData[2],
                               qe_auth_data |-> SubSeq(sigData, FIXED_LEN + 1,
                                                       FIXED_LEN + qeAuthLen),
                               cert_data_type |-> cert.cert_data_type,
                               cert_data |-> cert.cert_data]]

\* the body signature: the signature over the signed region under the
\* attestation key of the quote
verifyTdxV4Signature(q) ==
    LET parsed == parseTdxQuote(q)
    IN /\ parsed.error = "none"
       /\ ecdsaVerify(parsed.signature.attestation_public_key,
                      getTdx10SignedRegion(q), parsed.signature.signature)

\* a test parses the quote and verifies its body signature
ParseQuote ==
    /\ sample.kind = "parse"
    /\ result.kind = "none"
    /\ result' = [kind |-> "parse", parsed |-> parseTdxQuote(sample.quote),
                  signatureOk |-> verifyTdxV4Signature(sample.quote)]
    /\ LibraryStep

\* the library is called once, on one sample
InitLibrary ==
    /\ TunnelIdle
    /\ sample \in VerifySamples \cup ChainSamples \cup ParseSamples
    /\ result = NoResult
NextLibrary == Verify \/ VerifyChain \/ ParseQuote
SpecLibrary == InitLibrary /\ [][NextLibrary]_vars

\* ------------------------------------ relay: the listeners of one response
\* The listeners #handleTunnelHttpRequest puts on res stay on it: each "end"
\* and each "error" the application makes res emit runs its listener.
MaxEvents == 2        \* events one response emits

\* the events res has emitted so far, and how many responses went out for it
EventsOf(r) == IF "events" \in DOMAIN r THEN r.events ELSE <<>>
SentFor(r) == IF "sent" \in DOMAIN r THEN r.sent ELSE 0

\* res emits "end" or "error": the listener answers on the socket of the
\* request; res ends once
ResEmit(r, o) ==
    /\ r \in appRequests
    /\ Len(EventsOf(r)) < MaxEvents
    /\ Len(s2c[r.controlWs]) < MaxInFlight
    /\ o.ev = "end" => \A i \in DOMAIN EventsOf(r) : EventsOf(r)[i] # "end"
    /\ LET out == sendEncrypted(r.controlWs,
                      IF o.ev = "end"
                      THEN HttpResponse(r.requestId, r.url, 200, "-")
                      ELSE ErrorResponse(r.requestId, r.url, o.msg))
       IN /\ s2c' = out
          /\ appRequests' = (appRequests \ {r}) \cup
                {[controlWs |-> r.controlWs, requestId |-> r.requestId,
                  url |-> r.url, events |-> Append(EventsOf(r), o.ev),
                  sent |-> SentFor(r) + (IF out # s2c THEN 1 ELSE 0)]}
    /\ UNCHANGED <<quote, sState, symmetricKeyBySocket, webSocketConnections,
                   wssClients, mocks, decrypted, rx, c2s>>
    /\ UNCHANGED <<clientVars, qvlVars>>

\* what a peer may send while the application's answers are studied
PeerFramesApp == {ClientKx(1, ServerPub), Enc(1, HttpRequest(1, 1))}

NextApp ==
    \/ \E c \in 1..MaxHostPeers : PeerConnect(c)
    \/ \E c \in 1..MaxHostPeers : PeerAccepted(c)
    \/ \E c \in 1..MaxHostPeers, f \in PeerFramesApp : PeerFrame(c, f)
    \/ \E c \in 1..MaxHostPeers : PeerReceive(c)
    \/ \E c \in 1..MaxHostPeers : PeerGone(c)
    \/ \E r \in appRequests, o \in AppOutcomes : ResEmit(r, o)

SpecApp == InitHost /\ [][NextApp]_vars

\* ------------------------- relay: the host's connection handler at work
\* wss.addClient(mock) notifies the host application: its "connection"
\* handler runs inside addClient, before the relay signals open, and may use
\* the virtual socket at once ("-": it only keeps the socket)
InHandler == {"-", "send", "close"}

\* what the handler makes the relay write through onSend / onClose
HandlerFrames(cid, h) ==
    IF h = "send" THEN <<WsMessageOf(cid, 1, "string")>>
    ELSE IF h = "close" THEN <<WsEvent(cid, "close", 1001)>>
    ELSE <<>>

\* sendEncrypted, once for every payload of a sequence
RECURSIVE sendAll(_, _, _)
sendAll(q, c, payloads) ==
    IF payloads = <<>> THEN q
    ELSE sendAll(IF CanEncrypt(c)
                 THEN ToClient(q, c, Enc(symmetricKeyBySocket[c], Head(payloads)))
                 ELSE q,
                 c, Tail(payloads))

\* an enveloped ws_client_connect of a peer is intercepted and handled while
\* the host's connection handler does h: virtual client, mapping, addClient
\* (the handler runs), then the open event
ConnectInHandler(c, cid, h) ==
    /\ sState[c] = "OPEN"
    /\ s2c[c] = <<>>
    /\ HandshakeComplete(c)
    /\ Len(mocks) < MaxMock
    /\ decrypted' = [decrypted EXCEPT ![c] = TRUE]
    /\ rx' = [conn |-> c, outcome |-> "dispatched"]
    /\ mocks' = Append(mocks, IF h = "close" THEN close(NewMock(c, cid), 1001)
                              ELSE NewMock(c, cid))
    /\ webSocketConnections' = [webSocketConnections EXCEPT
           ![cid] = [mockWs |-> Len(mocks) + 1, controlWs |-> c]]
    /\ wssClients' = wssClients \cup {Len(mocks) + 1}
    /\ s2c' = sendAll(s2c, c, HandlerFrames(cid, h) \o <<OpenEvent(cid)>>)
    /\ UNCHANGED <<quote, sState, symmetricKeyBySocket, appRequests, c2s>>
    /\ UNCHANGED <<clientVars, qvlVars>>

NextOpen ==
    \/ \E c \in 1..MaxHostPeers : PeerConnect(c)
    \/ \E c \in 1..MaxHostPeers : PeerAccepted(c)
    \/ \E c \in 1..MaxHostPeers : PeerFrame(c, ClientKx(1, ServerPub))
    \/ \E c \in 1..MaxHostPeers : PeerReceive(c)
    \/ \E c \in 1..MaxHostPeers : PeerGone(c)
    \/ \E c \in 1..MaxHostPeers, cid \in ConnectionIds, h \in InHandler :
           ConnectInHandler(c, cid, h)
    \/ \E k \in 1..MaxMock, payload \in HostPayloads : HostSend(k, payload)
    \/ \E k \in 1..MaxMock, code \in HostCloseCodes : HostClose(k, code)

SpecOpen == InitHost /\ [][NextOpen]_vars

\* ------------------------------------- frames that name nothing registered
\* what the application hands to RA.send beside its requests: sub-connection
\* frames and a message of a type the relay does not know
TunnelMessages ==
    {WsConnect(1), WsMessage(2, 1), Unknown}
    \cup {WsClientClose(2, code) : code \in PeerCloseCodes}

\* RA.send(message): sealed under the key held and written to `ws`, or it
\* throws
TunnelSend(m) ==
    /\ CanSend(symmetricKey)
    /\ c2s[ws] = <<>>
    /\ s2c[ws] = <<>>
    /\ c2s' = ToServer(c2s, ws, Enc(symmetricKey, m))
    /\ UNCHANGED <<serverVars, qvlVars, s2c, clientVars>>

\* what the server end may send that names nothing the client has registered
StrayMessages ==
    {HttpResponse(rid, rid, 200, "-") : rid \in 1..MaxFetch}
    \cup {WsEvent(1, "close", 1000), WsMessage(1, 1), Unknown}

\* whoever holds the server end of a control socket that has its key sends an
\* envelope
StrayReply(c, m) ==
    /\ sState[c] = "OPEN"
    /\ cState[c] # "CLOSED"
    /\ CanEncrypt(c)
    /\ s2c[c] = <<>>
    /\ s2c' = sendEncrypted(c, m)
    /\ UNCHANGED <<serverVars, qvlVars, c2s, clientVars>>

\* one control socket that stays open, with requests, sub-connection frames
\* and stray envelopes in both directions
NextStray ==
    \/ ensureConnection(MaxSessions)
    \/ fetch(MaxSessions)
    \/ \E m \in TunnelMessages : TunnelSend(m)
    \/ \E c \in Conn : ClientOpen(c)
    \/ \E c \in Conn : ClientOnMessage(c)
    \/ \E c \in Conn : Accept(c)
    \/ \E c \in Conn, m \in StrayMessages : StrayReply(c, m)
    \/ \E c \in Conn : ServerReceive(c)

SpecStray == InitHost /\ [][NextStray]_vars


\* ------------------------------------------- tdx-guest-aux: SYS.RD iteration
\* field ids 0..MaxField-1; a chain is an enumeration order of some of them
MaxField == 3
\* the iterations a run of the loop is followed for
MaxCalls == 4
\* the width of tdcall_status (__s32), scaled: RAX has twice as many bits
IntBits == 4
\* a TDCALL completion status whose bits are all in the upper half of RAX
\* (error bit and class on top, details zero); 1 stands for a status with
\* bits in the lower half
StatusHigh == 12 * 2^IntBits

FieldIds == 0..(MaxField - 1)
Chains ==
    {ch \in UNION {[1..n -> FieldIds] : n \in 1..MaxField} :
        \A i, j \in DOMAIN ch : i # j => ch[i] # ch[j]}

\* a chain of fields that ends with next_id -1, the call that is disturbed
\* (0: none) and how, and what RDX holds after a TDCALL that did not succeed
SysRdSamples ==
    [kind : {"sysrd"}, chain : Chains, failAt : 0..MaxField,
     failKind : {"request", "status_low", "status_high"}, errNext : {-1, 0}]

\* (int)rax: the low half of the register
toInt(rax) == rax % 2^IntBits

\* the position of field f in the chain (0: not a field of the chain)
indexOf(ch, f) ==
    IF \E i \in DOMAIN ch : ch[i] = f THEN CHOOSE i \in DOMAIN ch : ch[i] = f ELSE 0

\* tdcall with RAX = sys_rd_leaf and RCX = field_id_in: RAX status, RCX the
\* field read, RDX the next id
tdcall(smp, n, field_id_in) ==
    LET ch == smp.chain
        i == IF field_id_in = -1 THEN 1 ELSE indexOf(ch, field_id_in)
    IN IF n = smp.failAt /\ smp.failKind # "request"
       THEN [rax |-> IF smp.failKind = "status_low" THEN 1 ELSE StatusHigh,
             rcx |-> field_id_in, rdx |-> smp.errNext]
       ELSE IF i = 0
       THEN [rax |-> StatusHigh, rcx |-> field_id_in, rdx |-> smp.errNext]
       ELSE [rax |-> 0, rcx |-> ch[i],
             rdx |-> IF i < Len(ch) THEN ch[i + 1] ELSE -1]

\* tdxga_sys_rd: the return value of the ioctl and the struct copied back
tdxga_sys_rd(smp, n, s) ==
    IF n = smp.failAt /\ smp.failKind = "request"
    THEN [ret |-> -1, s |-> s]
    ELSE LET r == tdcall(smp, n, s.field_id_in)
         IN [ret |-> 0,
             s |-> [field_id_in |-> s.field_id_in, field_id_out |-> r.rcx,
                    next_id |-> r.rdx, tdcall_status |-> toInt(r.rax)]]

\* struct tdx_sys_rd_arg s = {.field_id_in = -1}
SysRdStart ==
    /\ sample.kind = "sysrd"
    /\ result.kind = "none"
    /\ result' = [kind |-> "sysrd", pc |-> "loop", calls |-> 0, rax |-> 0,
                  reads |-> <<>>,
                  s |-> [field_id_in |-> -1, field_id_out |-> 0, next_id |-> 0,
                         tdcall_status |-> 0]]
    /\ LibraryStep

\* one evaluation of the loop condition and, when it holds, of the body
SysRdIterate ==
    /\ result.kind = "sysrd"
    /\ result.pc = "loop"
    /\ result.calls < MaxCalls
    /\ LET n == result.calls + 1
           o == tdxga_sys_rd(sample, n, result.s)
           rax == IF o.ret = 0 THEN tdcall(sample, n, result.s.field_id_in).rax
                  ELSE result.rax
           enter == o.ret = 0 /\ o.s.tdcall_status = 0
       IN result' =
            [kind |-> "sysrd", calls |-> n, rax |-> rax,
             pc |-> IF enter /\ o.s.next_id # -1 THEN "loop" ELSE "done",
             reads |-> IF enter THEN Append(result.reads, o.s.field_id_out)
                       ELSE result.reads,
             s |-> IF enter /\ o.s.next_id # -1
                   THEN [o.s EXCEPT !.field_id_in = o.s.next_id] ELSE o.s]
    /\ LibraryStep

InitSysRd == TunnelIdle /\ sample \in SysRdSamples /\ result = NoResult
NextSysRd == SysRdStart \/ SysRdIterate
SpecSysRd == InitSysRd /\ [][NextSysRd]_vars


\* ------------------------------------ test helper: rebuildQuoteWithCertData
\* the signature data of a TDX v4 quote, each fixed-size field one cell:
\* signature, attestation key, the header of the QE report certification
\* data (type, size), QE report, QE report signature, qe_auth_data length
\* (64 + 64 + 6 + 384 + 64 + 2 bytes)
FIXED_LEN_ECDSA == 1 + 1 + 2 + 1 + 1 + 1

MaxCert == 2

CertBytes == UNION {[1..n -> {9}] : n \in 0..MaxCert}

\* a base quote: measurements, qe_auth_data and the certification data it
\* carries, and the certification data to put in its place
RebuildFields ==
    [mr_td : {10, 11}, report_data : {20, 21}, qe_auth_data : {<<>>, <<7>>},
     cert_data_type : {PCK_CERT_DATA_TYPE, 6},
     cert_data : CertBytes]

\* a well-formed TDX v4 quote: every length prefix is the length of what it
\* covers
baseQuoteOf(f) ==
    LET header == <<TDX_VERSION, TDX_TEE_TYPE>>
        body == <<f.mr_td, f.report_data>>
        inner == <<f.cert_data_type, Len(f.cert_data)>> \o f.cert_data
        qe == <<30, 31, Len(f.qe_auth_data)>> \o f.qe_auth_data \o inner
        sigData == <<ecdsaSign(1, header \o body), 1,
                     6, Len(qe)>> \o qe
    IN header \o body \o <<Len(sigData)>> \o sigData

RebuildSamples ==
    {[kind |-> "rebuild", baseQuote |-> baseQuoteOf(f), certData |-> cd] :
        f \in RebuildFields, cd \in CertBytes}

\* rebuildQuoteWithCertData(baseQuote, certData)
rebuildQuoteWithCertData(baseQuote, certData) ==
    LET signedLen == Len(getTdx10SignedRegion(baseQuote))
        sigLen == baseQuote[signedLen + 1]
        sigStart == signedLen + 1
        sigData == SubSeq(baseQuote, sigStart + 1, sigStart + sigLen)
        qeAuthLen == sigData[FIXED_LEN_ECDSA]
        fixedPlusAuth == SubSeq(sigData, 1, FIXED_LEN_ECDSA + qeAuthLen)
        tail == <<PCK_CERT_DATA_TYPE, Len(certData)>>
        newSigData == fixedPlusAuth \o tail \o certData
        newSigLen == <<Len(newSigData)>>
        prefix == SubSeq(baseQuote, 1, signedLen)
    IN prefix \o newSigLen \o newSigData

\* a test rebuilds the base quote around other certification data
Rebuild ==
    /\ sample.kind = "rebuild"
    /\ result.kind = "none"
    /\ result' = [kind |-> "rebuild",
                  quote |-> rebuildQuoteWithCertData(sample.baseQuote, sample.certData)]
    /\ LibraryStep

InitRebuild == TunnelIdle /\ sample \in RebuildSamples /\ result = NoResult
NextRebuild == Rebuild
SpecRebuild == InitRebuild /\ [][NextRebuild]_vars


\* ------------------------------------------------ fair scheduling of events
\* what the event loop and the network owe the client: a started timer
\* fires, a queued frame is delivered, a connection attempt opens or fails,
\* a pending close event is delivered; nothing obliges a server to accept or
\* to answer, nor an open socket to close
Fairness ==
    /\ \A i \in 1..MaxFetch : WF_vars(FetchTimeout(i))
    /\ WF_vars(ReconnectTimer(MaxSessions))
    /\ \A c \in Conn :
          /\ WF_vars(ClientOpen(c))
          /\ WF_vars(ClientOnError(c))
          /\ WF_vars(ClientOnMessage(c))
          /\ WF_vars(closePending[c] /\ ClientOnClose(c))

SpecLive == Init /\ [][Next]_vars /\ Fairness

\* ------------------------------------------------------------------ claims
\* what the relay holds for its sockets, its sub-connections and the
\* application, and what it has put on the wire
relayState == <<symmetricKeyBySocket, webSocketConnections, wssClients, mocks,
                appRequests, decrypted, s2c>>

\* this step is the relay handling a frame of a peer on control socket c
FrameHandled(c) == rx'.conn = c /\ \E f \in PeerFramesWs : PeerFrame(c, f)

\* the frames of a peer that are not enc envelopes
PlaintextFrames == {f \in PeerFramesKx : ~isControlChannelEncryptedMessage(f)}

\* C2: once a symmetric key is stored for a control socket, the key stays as
\* it is for as long as the socket is open, and a later client_kx received
\* on that socket changes nothing the relay holds and sends nothing (a step
\* on the socket that does change something is the handling of no client_kx).
C2_KeyInstalledOnce ==
    [][/\ \A c \in Conn :
             symmetricKeyBySocket[c] # NoKey /\ sState'[c] = "OPEN"
                 => symmetricKeyBySocket'[c] = symmetricKeyBySocket[c]
       /\ \A c \in Conn :
             symmetricKeyBySocket[c] # NoKey /\ rx'.conn = c
             => \/ UNCHANGED relayState /\ rx'.outcome = "kx_ignored"
                \/ \A f \in KxFrames : ~PeerFrame(c, f)]_vars

\* a further client_kx has been received on an open socket that has a key
C2_Witness ==
    /\ rx.outcome = "kx_ignored"
    /\ sState[rx.conn] = "OPEN"
    /\ symmetricKeyBySocket[rx.conn] # NoKey

\* C4: while a control socket has no key, a frame other than client_kx is
\* dropped: no decryption is attempted, nothing is dispatched to the
\* application or to a virtual client, no sub-connection is created and no
\* frame is sent (a step on the socket that does change something is the
\* handling of no such frame).
C4_PreHandshakeDrop ==
    [][\A c \in Conn :
          symmetricKeyBySocket[c] = NoKey /\ rx'.conn = c
          => \/ /\ UNCHANGED relayState
                /\ rx'.outcome \in {"dropped_prehandshake", "invalid"}
             \/ \A f \in PeerFramesKx \ KxFrames : ~PeerFrame(c, f)]_vars

\* a frame has been dropped on an open socket that has no key
C4_Witness ==
    /\ rx.outcome = "dropped_prehandshake"
    /\ sState[rx.conn] = "OPEN"
    /\ symmetricKeyBySocket[rx.conn] = NoKey

\* C5: once a control socket has a key, a frame that is not an enc envelope
\* (a plaintext http_request, ws_client_connect, ws_message, ...) is dropped:
\* nothing is dispatched and nothing the relay holds changes (a step on the
\* socket that does change something is the handling of no such frame).
C5_PlaintextDropped ==
    [][\A c \in Conn :
          symmetricKeyBySocket[c] # NoKey /\ rx'.conn = c
          => \/ /\ UNCHANGED relayState
                /\ rx'.outcome \in {"dropped_plaintext", "invalid", "kx_ignored"}
             \/ \A f \in PlaintextFrames : ~PeerFrame(c, f)]_vars

\* a plaintext message has been dropped on an open socket that has a key
C5_Witness ==
    /\ rx.outcome = "dropped_plaintext"
    /\ sState[rx.conn] = "OPEN"
    /\ symmetricKeyBySocket[rx.conn] # NoKey

\* the live sub-connections created through control socket c
CreatedThrough(c) == {i \in 1..Len(mocks) : mocks[i].via = c /\ i \in wssClients}

\* C6: an inner message received on control socket a leaves every
\* sub-connection created through another control socket as it is: nothing
\* is delivered to it, it is not closed, and its entry in the connection map
\* is neither replaced nor removed.
C6_SocketIsolation ==
    [][\A a \in Conn :
          FrameHandled(a)
          => /\ \A i \in 1..Len(mocks) :
                   mocks[i].via # a
                       => mocks'[i] = mocks[i] /\ (i \in wssClients <=> i \in wssClients')
             /\ \A i \in ConnectionIds :
                   /\ webSocketConnections[i].mockWs # 0
                   /\ webSocketConnections[i].controlWs # a
                   => webSocketConnections'[i] = webSocketConnections[i]]_vars

\* C8: when control socket c closes, every live sub-connection created
\* through c is closed with code 1006, leaves the client set of the mock
\* server and the connection map, the key of c is removed, and the keys and
\* sub-connections of the other sockets stay as they are.
C8_CloseCleanup ==
    [][\A c \in Conn :
          PeerGone(c)
          => /\ \A i \in CreatedThrough(c) :
                   /\ mocks'[i].readyState = "CLOSED"
                   /\ mocks'[i].code = TunnelClosedCode
                   /\ i \notin wssClients'
                   /\ \A j \in ConnectionIds : webSocketConnections'[j].mockWs # i
             /\ symmetricKeyBySocket'[c] = NoKey
             /\ \A d \in Conn \ {c} :
                   /\ symmetricKeyBySocket'[d] = symmetricKeyBySocket[d]
                   /\ \A i \in CreatedThrough(d) :
                         mocks'[i] = mocks[i] /\ i \in wssClients'
             /\ \A j \in ConnectionIds :
                   webSocketConnections[j].controlWs # c
                       => webSocketConnections'[j] = webSocketConnections[j]]_vars

\* the frame that socket c delivers next to the client
Delivered(c) == IF s2c[c] = <<>> THEN NoFrame ELSE Head(s2c[c])

\* C1: on receiving server_kx, the client installs a symmetric key and sends
\* client_kx only if the quote of that server_kx verifies and match(quote)
\* returns true; otherwise it installs no key and sends nothing.
C1_HandshakeGated ==
    [][\A c \in Conn :
          /\ ClientOnMessage(c)
          /\ Delivered(c).type = "server_kx"
          /\ ~(QuoteVerifies(Delivered(c).inner) /\ Match(Delivered(c).inner))
          => UNCHANGED <<symmetricKey, serverX25519PublicKey, c2s>>]_vars

\* C3: for a control socket open at both ends on which nothing of the client
\* is in flight, a key installed by the relay for the socket is the key the
\* client holds.
C3_KeyAgreement ==
    \A s \in Conn :
        /\ sState[s] = "OPEN"
        /\ cState[s] = "OPEN"
        /\ c2s[s] = <<>>
        /\ symmetricKeyBySocket[s] # NoKey
        => symmetricKeyBySocket[s] = symmetricKey

\* C7: when the client's control socket closes, every call of fetch pending
\* at that moment is rejected as disconnected and no waiter stays registered.
C7_CloseFlush ==
    [][\A c \in Conn :
          ClientOnClose(c) /\ c = ws
          => /\ pendingRequests' = {}
             /\ \A i \in 1..Len(fetches) :
                   fetches[i].st = "pending"
                       => fetches'[i].st = "rejected" /\ fetches'[i].by = "disconnected"]_vars

\* call i of fetch is settled by this step through an http_response
SettledByResponse(i) ==
    /\ fetches[i].st = "pending"
    /\ fetches'[i].st # "pending"
    /\ fetches'[i].by \in {"response", "error"}

\* C9: a call of fetch is resolved or rejected through a response only by the
\* http_response that carries the requestId the call allocated, and a
\* response leaves every call that allocated another requestId as it is; the
\* response that resolves a call answers the url of that call.
C9_Pairing ==
    [][/\ \A i \in 1..Len(fetches) :
             SettledByResponse(i)
                 => /\ \E c \in Conn :
                          /\ ClientOnMessage(c)
                          /\ Delivered(c).type = "enc"
                          /\ Delivered(c).inner = "http_response"
                          /\ Delivered(c).id = i
                    /\ fetches'[i].st = "resolved" => fetches'[i].url = i
       /\ \A c \in Conn, i \in 1..Len(fetches) :
             /\ ClientOnMessage(c)
             /\ Delivered(c).inner = "http_response"
             /\ Delivered(c).id # i
             => fetches'[i] = fetches[i] /\ (i \in pendingRequests <=> i \in pendingRequests')]_vars

\* the second call has been resolved by its response while the first call is
\* still pending and the response to the first call is on its way
C9_Witness ==
    /\ Len(fetches) = 2
    /\ fetches[2].st = "resolved" /\ fetches[2].by = "response"
    /\ fetches[1].st = "pending" /\ 1 \in pendingRequests
    /\ ws # 0
    /\ Delivered(ws).inner = "http_response"
    /\ Delivered(ws).id = 1

\* C10: the http_response matching a pending call rejects the call with the
\* error message when its error field is set, whatever its status, and
\* resolves the call with its status when it has no error field.
C10_FetchOutcome ==
    [][\A c \in Conn, i \in 1..Len(fetches) :
          /\ ClientOnMessage(c)
          /\ Delivered(c).type = "enc"
          /\ Delivered(c).key = symmetricKey
          /\ Delivered(c).inner = "http_response"
          /\ Delivered(c).id = i
          /\ fetches[i].st = "pending"
          => IF Delivered(c).err # "-"
             THEN /\ fetches'[i].st = "rejected"
                  /\ fetches'[i].err = Delivered(c).err
             ELSE /\ fetches'[i].st = "resolved"
                  /\ fetches'[i].status = Delivered(c).status]_vars

\* C11: when the 30 s timer of a call fires while its waiter is registered,
\* the waiter is removed and the call is rejected as timed out, the other
\* calls staying as they are; when the response was delivered before, the
\* firing changes nothing; a response that arrives for a call that timed out
\* changes neither the calls nor the waiters.
C11_FetchTimeout ==
    [][/\ \A i \in 1..Len(fetches) :
             FetchTimeout(i)
             => IF i \in pendingRequests
                THEN /\ pendingRequests' = pendingRequests \ {i}
                     /\ fetches'[i].st = "rejected"
                     /\ fetches'[i].by = "timeout"
                     /\ \A j \in 1..Len(fetches) : j # i => fetches'[j] = fetches[j]
                ELSE UNCHANGED vars
       /\ \A c \in Conn :
             /\ ClientOnMessage(c)
             /\ Delivered(c).inner = "http_response"
             /\ Delivered(c).id \in 1..Len(fetches)
             /\ fetches[Delivered(c).id].by = "timeout"
             => UNCHANGED <<fetches, pendingRequests>>]_vars

\* the only call timed out, and after that its response was delivered on the
\* socket, which is still open at both ends
C11_Witness ==
    /\ Len(fetches) = 1
    /\ fetches[1].by = "timeout"
    /\ ws # 0
    /\ cState[ws] = "OPEN" /\ sState[ws] = "OPEN"
    /\ decrypted[ws]
    /\ appRequests = {}
    /\ c2s[ws] = <<>> /\ s2c[ws] = <<>>

\* the relay has put exactly frame f on control socket c in this step
Sent(c, f) == s2c' = [s2c EXCEPT ![c] = Append(@, f)]

\* C12: when the handling of a tunnelled http_request fails while the socket
\* of the request has its key and its peer, the relay sends on that socket
\* an http_response with the requestId of the request, status 500 and the
\* error message in the error field: when the response emits an error, and
\* when the application throws (the request is then not left unanswered).
C12_ServerError ==
    [][/\ \A r \in appRequests, o \in AppOutcomes :
             /\ o.ev = "error"
             /\ Answered(r, o)
             /\ CanEncrypt(r.controlWs)
             /\ cState[r.controlWs] # "CLOSED"
             => Sent(r.controlWs,
                     Enc(symmetricKeyBySocket[r.controlWs],
                         HttpResponse(r.requestId, r.url, 500, o.msg)))
       /\ \A c \in Conn :
             /\ ServerReceive(c)
             /\ Head(c2s[c]).inner = "http_request"
             /\ DecryptOk(c, Head(c2s[c]))
             /\ cState[c] # "CLOSED"
             /\ appRequests' = appRequests
             => \E t \in AppThrows \ {"-"} :
                    Sent(c, Enc(symmetricKeyBySocket[c],
                                HttpResponse(Head(c2s[c]).id, Head(c2s[c]).arg, 500, t)))]_vars

\* an error response is on its way to the client for a call that is pending
C12_Witness ==
    /\ ws # 0
    /\ Delivered(ws).inner = "http_response"
    /\ Delivered(ws).status = 500
    /\ Delivered(ws).err = "boom"
    /\ Delivered(ws).id \in pendingRequests

\* the enc envelopes a peer may send
EncFrames == {f \in PeerFramesKx : isControlChannelEncryptedMessage(f)}

\* C13 (the per-socket half, at the relay): an envelope that fails to decrypt
\* on a control socket that has its key closes that control socket, and the
\* relay forgets the key of the socket.
C13_DecryptFailureCloses ==
    [][\A c \in Conn :
          symmetricKeyBySocket[c] # NoKey /\ rx'.conn = c
          => \A f \in EncFrames :
                 ~DecryptOk(c, f) /\ PeerFrame(c, f)
                 => sState'[c] = "CLOSED" /\ symmetricKeyBySocket'[c] = NoKey]_vars

\* C14: every close of a control socket of the client arms one more
\* reconnect timer, and the handling of server_kx installs a key that was
\* never drawn before: it differs from the key held until then and from
\* every key the relay holds.
C14_Reconnection ==
    [][/\ \A c \in Conn :
             ClientOnClose(c) => reconnectTimers' = reconnectTimers + 1
       /\ \A c \in Conn :
             ClientOnMessage(c) /\ Delivered(c).type = "server_kx"
             => /\ symmetricKey' > keygen
                /\ symmetricKey' # symmetricKey
                /\ \A d \in Conn : symmetricKeyBySocket[d] # symmetricKey']_vars

\* the first socket closed, and the handshake on the second socket is
\* complete with another key than the first one
C14_Witness ==
    /\ ws = 2
    /\ cState[1] = "CLOSED" /\ cState[2] = "OPEN"
    /\ symmetricKey = 2
    /\ symmetricKeyBySocket[2] = 2

\* C15: the relay accepts an upgrade only for the path /__ra__: an upgrade
\* request on any other url leaves the socket destroyed and announces nothing
\* on it
C15_UpgradePath ==
    [][\A c \in Conn, url \in UpgradeUrls \ {ControlPath} :
          PeerUpgrade(c, url)
          => sState'[c] = "CLOSED" /\ s2c'[c] = s2c[c]]_vars

\* the place of a readyState in CONNECTING, OPEN, CLOSING, CLOSED
Rank(st) == CASE st = "CONNECTING" -> 0 [] st = "OPEN" -> 1
              [] st = "CLOSING" -> 2 [] OTHER -> 3

\* C16: the readyState of a sub-connection only moves forward through
\* CONNECTING, OPEN, CLOSING, CLOSED, and once it is CLOSED (by
\* ws_client_close, by the host application or by the close of the control
\* socket) no later ws_message is delivered to its host handler.
C16_Lifecycle ==
    [][\A k \in 1..Len(mocks) :
          /\ Rank(mocks'[k].readyState) >= Rank(mocks[k].readyState)
          /\ mocks[k].readyState = "CLOSED" => mocks'[k].msgs = mocks[k].msgs]_vars

\* the virtual sockets that the connection map tracks under connectionId i
TrackedAs(i) == {k \in 1..Len(mocks) : webSocketConnections[i].mockWs = k}

\* the state of sub-connection k is reclaimed: no map entry names it and the
\* mock server does not list it
Reclaimed(k) ==
    /\ k \notin wssClients'
    /\ \A j \in ConnectionIds : webSocketConnections'[j].mockWs # k

\* C17: when a sub-connection is closed by the client (ws_client_close) or by
\* the host application (close on the virtual socket), a ws_event close for
\* its connectionId is sent on its control socket, its connectionId leaves
\* the connection map and its virtual client leaves the mock server.
C17_CloseEitherSide ==
    [][/\ \A k \in 1..Len(mocks), code \in HostCloseCodes :
             HostClose(k, code)
             => /\ Reclaimed(k)
                /\ CanEncrypt(mocks[k].via)
                   => Sent(mocks[k].via,
                           Enc(symmetricKeyBySocket[mocks[k].via],
                               WsEvent(mocks[k].connectionId, "close", code)))
       /\ \A c \in Conn :
             rx'.conn = c /\ rx'.outcome = "dispatched"
             => \A i \in ConnectionIds, code \in PeerCloseCodes :
                   PeerFrame(c, Enc(symmetricKeyBySocket[c], WsClientClose(i, code)))
                   => \A k \in TrackedAs(i) :
                         /\ Reclaimed(k)
                         /\ Sent(c, Enc(symmetricKeyBySocket[c],
                                        WsEvent(i, "close", code)))]_vars

\* the ws_message frames queued on control socket c for connectionId i
QueuedFor(c, i) ==
    SelectSeq(s2c[c], LAMBDA f : f.inner = "ws_message" /\ f.id = i)

\* C18: what the host handler of a sub-connection has received only grows at
\* its end, by the message just handled; a control socket's queue to the
\* client only loses its head or grows at its end; and a host send puts its
\* ws_message behind everything queued before it, whatever else is queued
\* for other connectionIds or for HTTP requests.
C18_Ordering ==
    [][/\ \A k \in 1..Len(mocks) :
             \/ mocks'[k].msgs = mocks[k].msgs
             \/ /\ rx'.outcome = "dispatched"
                /\ \E f \in PeerFramesHost :
                      /\ f.inner = "ws_message"
                      /\ f.id = mocks[k].connectionId
                      /\ PeerFrame(rx'.conn, f)
                      /\ mocks'[k].msgs = Append(mocks[k].msgs, dataToSend(Inner(f)))
       /\ \A c \in Conn :
             \/ s2c'[c] = s2c[c]
             \/ s2c[c] # <<>> /\ s2c'[c] = Tail(s2c[c])
             \/ Len(s2c'[c]) = Len(s2c[c]) + 1
                /\ SubSeq(s2c'[c], 1, Len(s2c[c])) = s2c[c]
       /\ \A k \in 1..Len(mocks), payload \in HostPayloads :
             HostSend(k, payload) /\ CanEncrypt(mocks[k].via)
             => Sent(mocks[k].via,
                     Enc(symmetricKeyBySocket[mocks[k].via],
                         WsMessageOf(mocks[k].connectionId, payload.val,
                                     dataTypeOf(payload))))]_vars

\* one host handler has received two different messages while another one
\* has received a message too, and two different frames of the first one's
\* connectionId are queued to the client
C18_Witness ==
    \E k, other \in 1..Len(mocks) :
        /\ other # k
        /\ mocks[other].connectionId # mocks[k].connectionId
        /\ mocks[other].msgs # <<>>
        /\ Len(mocks[k].msgs) = 2
        /\ mocks[k].msgs[1] # mocks[k].msgs[2]
        /\ Len(QueuedFor(mocks[k].via, mocks[k].connectionId)) = 2
        /\ QueuedFor(mocks[k].via, mocks[k].connectionId)[1]
               # QueuedFor(mocks[k].via, mocks[k].connectionId)[2]

\* C19: an inbound ws_message of dataType string reaches the host handler as
\* a string and one of dataType arraybuffer as a Buffer; a host send of a
\* string leaves as a ws_message of dataType string and a host send of a
\* Buffer as one of dataType arraybuffer, for every payload.
C19_TextBinary ==
    [][/\ \A k \in 1..Len(mocks) :
             Len(mocks'[k].msgs) > Len(mocks[k].msgs)
             => \E f \in PeerFramesHost :
                   /\ PeerFrame(rx'.conn, f)
                   /\ f.ev = "string"
                      => mocks'[k].msgs[Len(mocks'[k].msgs)].kind = "string"
                   /\ f.ev = "arraybuffer"
                      => mocks'[k].msgs[Len(mocks'[k].msgs)].kind = "buffer"
       /\ \A k \in 1..Len(mocks), payload \in HostPayloads :
             /\ HostSend(k, payload)
             /\ CanEncrypt(mocks[k].via)
             /\ payload.kind \in {"string", "buffer"}
             => \E f \in {Enc(symmetricKeyBySocket[mocks[k].via],
                              WsMessageOf(mocks[k].connectionId, payload.val, t)) :
                            t \in {IF payload.kind = "string" THEN "string"
                                   ELSE "arraybuffer"}} :
                   Sent(mocks[k].via, f)]_vars

\* C20: identifiers are unique within a session; in particular no two live
\* virtual clients listed by the mock server share a connectionId.
C20_UniqueIds ==
    \A i, j \in wssClients :
        /\ i # j
        /\ mocks[i].readyState = "OPEN"
        /\ mocks[j].readyState = "OPEN"
        => mocks[i].connectionId # mocks[j].connectionId

\* C21: a ws_client_connect accepted on a control socket that has its key
\* creates at most one virtual client; either that client is listed by the
\* mock server and tracked under the given connectionId and a ws_event open
\* is sent for it, or a ws_event error is sent for that connectionId.
C21_SubConnectionOpen ==
    [][\A c \in Conn :
          rx'.conn = c /\ rx'.outcome = "dispatched"
          => \A i \in ConnectionIds :
                PeerFrame(c, Enc(symmetricKeyBySocket[c], WsConnect(i)))
                => \/ /\ mocks' = Append(mocks, NewMock(c, i))
                      /\ wssClients' = wssClients \cup {Len(mocks) + 1}
                      /\ webSocketConnections'[i]
                             = [mockWs |-> Len(mocks) + 1, controlWs |-> c]
                      /\ \A j \in ConnectionIds \ {i} :
                             webSocketConnections'[j] = webSocketConnections[j]
                      /\ Sent(c, Enc(symmetricKeyBySocket[c], WsEvent(i, "open", 0)))
                   \/ /\ Len(mocks') <= Len(mocks) + 1
                      /\ \E t \in ConnectThrows \ {"-"} :
                            Sent(c, Enc(symmetricKeyBySocket[c], WsError(i, t)))]_vars

\* a second sub-connection has just been opened on a socket and its open
\* event is on its way behind nothing else
C21_Witness ==
    /\ Len(mocks) = 2
    /\ 2 \in wssClients
    /\ webSocketConnections[2] = [mockWs |-> 2, controlWs |-> mocks[2].via]
    /\ s2c[mocks[2].via]
           = <<Enc(symmetricKeyBySocket[mocks[2].via], WsEvent(2, "open", 0))>>
    /\ symmetricKeyBySocket[mocks[2].via] # NoKey

\* the request that an http_request envelope hands to the application
RequestOf(c, f) == [controlWs |-> c, requestId |-> f.id, url |-> f.arg]

\* C22: on a control socket that has its key, an enc envelope is dispatched
\* if and only if it was sealed under the key of that socket; nothing
\* remembers an envelope, so one that was accepted before (its request is
\* still with the application) is dispatched again when it is replayed on
\* the same socket, and an envelope sealed under the key of another socket
\* changes nothing at the relay.
C22_EnvelopeReplay ==
    [][\A c \in Conn :
          symmetricKeyBySocket[c] # NoKey /\ rx'.conn = c
          => \A f \in EncFrames :
                PeerFrame(c, f)
                => IF f.key = symmetricKeyBySocket[c]
                   THEN /\ rx'.outcome = "dispatched"
                        /\ f.inner = "http_request"
                           => \/ /\ appRequests' = appRequests \cup {RequestOf(c, f)}
                                 /\ UNCHANGED s2c
                              \/ /\ UNCHANGED appRequests
                                 /\ \E t \in AppThrows \ {"-"} :
                                       Sent(c, Enc(f.key, ErrorResponse(f.id, f.arg, t)))
                   ELSE /\ rx'.outcome = "decrypt_failed"
                        /\ UNCHANGED <<symmetricKeyBySocket, webSocketConnections,
                                       wssClients, mocks, appRequests, s2c>>]_vars

\* the same http_request envelope was dispatched twice on socket 1: the first
\* request is still with the application and the second one was just
\* answered with the error response; socket 2 holds another key
C22_Witness ==
    /\ symmetricKeyBySocket[1] = 1
    /\ symmetricKeyBySocket[2] = 2
    /\ RequestOf(1, HttpRequest(1, 1)) \in appRequests
    /\ rx = [conn |-> 1, outcome |-> "dispatched"]
    /\ s2c[1] = <<Enc(1, ErrorResponse(1, 1, "boom"))>>

\* the frames that this step adds to what the client has in flight on c
NewlySent(c) ==
    {c2s'[c][k] : k \in (Len(c2s[c]) + 1)..Len(c2s'[c])}

\* C27: a call that awaits ensureConnection goes on only once the server_kx
\* of the current control socket has been handled: no connection promise is
\* resolved by anything but the server_kx handler of the current socket,
\* which sends client_kx on it, and a call made while the current socket is
\* open with its handshake unfinished is left waiting.
C27_WaitsForHandshake ==
    [][/\ \A c \in Conn :
             promState[c] = "pending" /\ promState'[c] = "resolved"
             => /\ ClientOnMessage(c)
                /\ Delivered(c).type = "server_kx"
                /\ \E f \in NewlySent(c) : f.type = "client_kx"
       /\ /\ fetch(MaxSessions)
          /\ ws # 0
          /\ cState[ws] = "OPEN"
          /\ promState[ws] = "pending"
          => /\ fetches'[Len(fetches')].st = "connecting"
             /\ UNCHANGED <<c2s, pendingRequests>>]_vars

\* C28: an enc frame that the client puts on a control socket is sealed under
\* the key the client holds, and the handshake of that socket has been
\* completed by then, so that this key was drawn for that socket.
C28_NoStaleKey ==
    [][\A c \in Conn :
          Len(c2s'[c]) > Len(c2s[c])
          => \A f \in NewlySent(c) :
                f.type = "enc"
                => /\ promState'[c] = "resolved"
                   /\ f.key = symmetricKey']_vars

\* the control sockets of the client that are connecting or open
LiveSockets == {c \in Conn : cState[c] \in {"CONNECTING", "OPEN"}}

\* C29: the client has at most one control socket that is connecting or
\* open, and a callback of a socket that is not the current one neither
\* clears the connection promise, nor installs a key, nor sends on the
\* current socket.
C29_SingleSocket ==
    [][/\ Cardinality(LiveSockets') <= 1
       /\ \A c \in Conn :
             /\ c # ws
             /\ ClientOnMessage(c) \/ ClientOnError(c) \/ ClientOnClose(c)
             => /\ UNCHANGED <<connectionPromise, symmetricKey>>
                /\ ws # 0 => c2s'[ws] = c2s[ws]]_vars

\* C30: once the client has handled the first server_kx of a control socket,
\* a further server_kx on that socket neither changes the client's key nor
\* makes it send another client_kx.
C30_ClientKeyOnce ==
    [][\A c \in Conn :
          /\ ClientOnMessage(c)
          /\ Delivered(c).type = "server_kx"
          /\ promState[c] = "resolved"
          => /\ symmetricKey' = symmetricKey
             /\ UNCHANGED c2s]_vars

\* a level is satisfied as the claim words it: its pcesvn is at most the
\* quote's pce_svn and every component requirement in 0..255 is at most the
\* quote's component
LevelSatisfied(level, q) ==
    /\ level.pcesvn <= q.pce_svn
    /\ \A i \in DOMAIN level.comps :
          level.comps[i] \in 0..255 => level.comps[i] <= q.cpu_svn[i]

\* the status of the first satisfied level, OutOfDate when there is none
StatusOf(levels, q) ==
    IF \E i \in DOMAIN levels : LevelSatisfied(levels[i], q)
    THEN levels[CHOOSE i \in DOMAIN levels :
                    /\ LevelSatisfied(levels[i], q)
                    /\ \A j \in 1..(i - 1) : ~LevelSatisfied(levels[j], q)].tcbStatus
    ELSE "OutOfDate"

\* C26: the hook's status is that of the first TCB level, in listed order,
\* that the quote satisfies, OutOfDate when no level is satisfied, and the
\* hook accepts exactly when the TCB info is fresh at the evaluation time and
\* the status is UpToDate or ConfigurationNeeded.
C26_TcbSelection ==
    result.kind = "tcb"
    => LET fresh == /\ sample.tcbInfo.issueDate <= BASE_TIME
                    /\ BASE_TIME <= sample.tcbInfo.nextUpdate
       IN /\ result.status = StatusOf(sample.tcbInfo.tcbLevels, sample.quote)
          /\ result.freshnessOk = fresh
          /\ result.valid = (fresh /\ result.status \in {"UpToDate", "ConfigurationNeeded"})

\* C23: during verifySgx / verifyTdx the caller's TCB hook is called with the
\* FMSPC of the PCK leaf and the parsed quote, and a quote whose signatures
\* and certificate chain are valid is accepted exactly when the hook answers
\* true; a rejection by the hook fails the whole verification.
C23_TcbHook ==
    (result.kind = "verify" /\ sample.cryptoOk)
    => /\ result.hookFmspc = sample.fmspc
       /\ result.hookQuote = sample.quote
       /\ (result.outcome = "true") = sample.hook[sample.fmspc]

\* a valid quote has been verified and the hook has rejected it, while it
\* would have accepted the other platform
C23_Witness ==
    /\ result.kind = "verify"
    /\ sample.cryptoOk
    /\ ~sample.hook[sample.fmspc]
    /\ sample.hook[fmspcOfOther(sample)]
    /\ result.outcome # "true"

\* C25: for a bundle of three PCK certificates in any order the chain
\* verification returns exactly three certificates ordered leaf,
\* intermediate, root, and the status is valid only when the root is a
\* pinned Intel root.
C25_ChainNormalized ==
    result.kind = "chain"
    => /\ Len(result.chain) = 3
       /\ result.chain[1] = PckLeaf
       /\ result.chain[2] = PckPlatformCa
       /\ result.chain[3] \in {IntelRootCa, OtherRootCa}
       /\ Certs(result.chain) = Certs(sample.certs)
       /\ (result.status = "valid" => result.chain[3].sha256 \in PinnedRoots)

\* a bundle that came root first and leaf last has been verified and is valid
C25_Witness ==
    /\ result.kind = "chain"
    /\ sample.certs[1] = IntelRootCa
    /\ sample.certs[3] = PckLeaf
    /\ result.status = "valid"

\* C24: a TDX v4 quote that carries no certification data parses without
\* error, with signature.cert_data null and header and body fully populated,
\* and its body signature over header followed by body verifies although
\* the certification data is absent.
C24_AbsentCertData ==
    (result.kind = "parse" /\ sample.fields.cert = "absent")
    => /\ result.parsed.error = "none"
       /\ result.parsed.signature.cert_data = "null"
       /\ result.parsed.header = [version |-> TDX_VERSION, tee_type |-> TDX_TEE_TYPE]
       /\ result.parsed.body = [mr_td |-> sample.fields.mr_td,
                                report_data |-> sample.fields.report_data]
       /\ result.parsed.signature.qe_auth_data = sample.fields.qe_auth_data
       /\ result.signatureOk = (sample.fields.signed = "header+body")

\* a quote without certification data, signed over header and body and with
\* qe_auth_data, has been parsed and its signature verified
C24_Witness ==
    /\ result.kind = "parse"
    /\ sample.fields.cert = "absent"
    /\ sample.fields.signed = "header+body"
    /\ sample.fields.qe_auth_data # <<>>
    /\ result.signatureOk
    /\ result.parsed.signature.cert_data = "null"

\* C31: a requestId is in the client's pending-request map exactly when the
\* call of fetch that allocated it has neither resolved nor rejected; a call
\* that rejects because sending failed leaves no waiter behind.
C31_PendingOnlyUnsettled ==
    \A i \in 1..Len(fetches) :
        fetches[i].st # "connecting"
        => ((i \in pendingRequests) <=> (fetches[i].st = "pending"))

\* C33: for each http_request the relay hands to the application it sends
\* at most one http_response with that requestId, whatever the response
\* emits (end, error) and whether or not the handler throws.
C33_OneResponse == \A r \in appRequests : SentFor(r) <= 1

\* C34: the ws_event open is the first frame the relay sends for a
\* connectionId: in the step that creates a virtual client, no ws_message and
\* no ws_event close for its connectionId is written before the open event,
\* even when the host application sends or closes from inside its
\* connection handler.
C34_OpenBeforeData ==
    [][\A c \in Conn :
          Len(mocks') > Len(mocks) /\ Len(s2c'[c]) > Len(s2c[c])
          => LET f == s2c'[c][Len(s2c[c]) + 1]
                 cid == mocks'[Len(mocks')].connectionId
             IN f.id = cid /\ f.inner \in {"ws_message", "ws_event"}
                => f.inner = "ws_event" /\ f.ev # "close"]_vars

\* the frames a step adds to a queue
Added(q, qn) == IF Len(qn) > Len(q) THEN {qn[i] : i \in (Len(q) + 1)..Len(qn)} ELSE {}

\* C35: the only plaintext frame the relay sends is server_kx and the only
\* plaintext frame the client sends is client_kx; every other frame either
\* side sends is an enc envelope under the key held for the socket, and an
\* endpoint that holds no key sends nothing instead.
C35_NoPlaintext ==
    [][\A c \in Conn :
          /\ \A f \in Added(s2c[c], s2c'[c]) :
                \/ f.type = "server_kx"
                \/ /\ f.type = "enc"
                   /\ symmetricKeyBySocket[c] # NoKey
                   /\ f.key = symmetricKeyBySocket[c]
          /\ \A f \in Added(c2s[c], c2s'[c]) :
                \/ f.type = "client_kx"
                \/ /\ f.type = "enc"
                   /\ symmetricKey' # NoKey
                   /\ f.key = symmetricKey']_vars

\* a call of fetch found the socket open and no key: it was rejected by the
\* failing send and nothing was written to the socket
C35_Witness ==
    /\ symmetricKey = NoKey
    /\ ws # 0
    /\ cState[ws] = "OPEN"
    /\ c2s[ws] = <<>>
    /\ \E i \in 1..Len(fetches) : fetches[i].st = "rejected" /\ fetches[i].by = "send"

\* C36: when the sealed box of a client_kx does not open, no key is stored
\* for the socket and nothing else the relay holds changes, the socket stays
\* in the pre-handshake state, and a well-formed client_kx that follows on
\* the same socket installs its key.
C36_FailedInstall ==
    [][\A c \in Conn :
          /\ rx'.conn = c /\ rx'.outcome = "kx_failed"
             => \A f \in KxFrames :
                   ~SealOpens(f) /\ symmetricKeyBySocket[c] = NoKey /\ PeerFrame(c, f)
                   => /\ UNCHANGED relayState
                      /\ symmetricKeyBySocket'[c] = NoKey
                      /\ ~HandshakeComplete(c)'
          /\ rx.conn = c /\ rx.outcome = "kx_failed"
             => \A k \in PeerKeys :
                   PeerFrame(c, ClientKx(k, ServerPub))
                   => symmetricKeyBySocket'[c] = k /\ rx'.outcome = "kx_installed"]_vars

\* a client_kx whose box did not open has just been handled on an open
\* socket, which is ready for the next frame
C36_Witness ==
    /\ rx.outcome = "kx_failed"
    /\ sState[rx.conn] = "OPEN"
    /\ s2c[rx.conn] = <<>>
    /\ symmetricKeyBySocket[rx.conn] = NoKey


\* the head of the client's inbound queue is an envelope under the key held
\* that names nothing registered: a response without a waiter, a
\* sub-connection frame (no sub-connection is registered), an unknown type
StrayAtClient(c) ==
    /\ s2c[c] # <<>>
    /\ cState[c] \in {"OPEN", "CLOSING"}
    /\ LET f == Head(s2c[c]) IN
          /\ f.type = "enc" /\ symmetricKey # NoKey /\ f.key = symmetricKey
          /\ \/ f.inner = "http_response" /\ f.id \notin pendingRequests
             \/ f.inner \in {"ws_event", "ws_message", "unknown"}

\* the head of the relay's inbound queue decrypts to a sub-connection frame
\* whose connectionId is not tracked, or to a message of an unknown type
StrayAtRelay(c) ==
    /\ c2s[c] # <<>>
    /\ sState[c] = "OPEN"
    /\ LET f == Head(c2s[c]) IN
          /\ f.type = "enc" /\ DecryptOk(c, f)
          /\ \/ /\ f.inner \in {"ws_message", "ws_client_close"}
                /\ webSocketConnections[f.id] = NoEntry
             \/ f.inner = "unknown"

\* C37: a decrypted http_response without a registered waiter, a ws_event,
\* ws_message or ws_client_close whose connectionId has no registered
\* sub-connection, and a decrypted message of an unrecognized type leave the
\* pending requests, the calls, the sub-connections and the keys as they are
\* and put no frame on the wire
C37_StrayFramesInert ==
    [][\A c \in Conn :
          /\ StrayAtClient(c) /\ ClientOnMessage(c)
                => UNCHANGED <<pendingRequests, fetches, symmetricKey,
                               serverX25519PublicKey, c2s, symmetricKeyBySocket,
                               webSocketConnections, wssClients, mocks>>
          /\ StrayAtRelay(c) /\ ServerReceive(c)
                => UNCHANGED <<symmetricKeyBySocket, webSocketConnections,
                               wssClients, mocks, appRequests, s2c,
                               pendingRequests, fetches, symmetricKey,
                               serverX25519PublicKey>>]_vars

\* a response for call 1 reaches the client while only call 2 waits, and a
\* close for sub-connection 2 reaches the relay that tracks only 1
C37_Witness ==
    /\ ws # 0
    /\ StrayAtClient(ws) /\ Head(s2c[ws]).inner = "http_response"
    /\ pendingRequests # {}
    /\ StrayAtRelay(ws) /\ Head(c2s[ws]).inner = "ws_client_close"
    /\ webSocketConnections[1] # NoEntry


\* C39: the iteration goes on to another request only after a request whose
\* TDCALL status was zero (it stops as soon as the request fails, the status
\* is nonzero or next_id is -1)
C39_StopsOnStatus ==
    result.kind = "sysrd" /\ result.calls > 0 /\ result.pc = "loop"
        => result.rax = 0


\* the length prefixes of the signature block of quote q, each against the
\* length of the bytes it covers
PrefixesBound(q) ==
    LET signedLen == HEADER_LEN + BODY_LEN
        sigData == SubSeq(q, signedLen + 2, Len(q))
        qeAuthLen == sigData[FIXED_LEN_ECDSA]
        off == FIXED_LEN_ECDSA + qeAuthLen
    IN /\ q[signedLen + 1] = Len(sigData)
       /\ Len(sigData) >= off + 2
       /\ sigData[off + 2] = Len(sigData) - (off + 2)
       /\ sigData[4] = Len(sigData) - 4

\* C38: the rebuilt quote keeps the signed header and body, has
\* cert_data_type 5, and every length prefix of its signature block (the
\* signature-data length, the qe_auth_data length and each certification-data
\* size, the enclosing one included) is the length of the bytes it covers
C38_RebuiltLengths ==
    result.kind = "rebuild"
        => LET q == result.quote
               signedLen == HEADER_LEN + BODY_LEN
               sigData == SubSeq(q, signedLen + 2, Len(q))
           IN /\ SubSeq(q, 1, signedLen) = SubSeq(sample.baseQuote, 1, signedLen)
              /\ sigData[FIXED_LEN_ECDSA + sigData[FIXED_LEN_ECDSA] + 1]
                     = PCK_CERT_DATA_TYPE
              /\ PrefixesBound(q)


\* call i of fetch has resolved or rejected
Settled(i) == i <= Len(fetches) /\ fetches[i].st \in {"resolved", "rejected"}

====
